---- MODULE Spec2Model ----
(***************************************************************************)
(* Coupon-Backend: the session guard, the authentication service (signup,  *)
(* login, OTP issuance and verification), the profile service and the     *)
(* coupon lifecycle manager (create, update, delete, reads, periodic      *)
(* sweep and cleanup) over the shared relational store.                   *)
(*                                                                        *)
(* Every request handler is a sequence of steps, one step per statement   *)
(* the handler awaits on the store (pool.query) or on a collaborator:     *)
(* the statement takes effect atomically, and the synchronous code that   *)
(* follows it up to the next await runs in the same step.  Handlers of    *)
(* different clients interleave between steps, as they do on the node     *)
(* event loop.  Time is counted in seconds.                               *)
(***************************************************************************)
EXTENDS Integers, Sequences, FiniteSets, TLC

VARIABLES
    now,            \* the clock: NOW() of the store and new Date() of the server
    users,          \* table users, in insertion order; a row's id is its index
    otp_codes,      \* table otp_codes, in insertion order
    users_profiles, \* table users_profiles, in insertion order
    pc,             \* per client: where its current request stands
    ctx,            \* per client: the locals of the handler it is running
    resp,           \* per client: the response sent for the current request
    otpSucceeded,   \* history: the user ids a verifyOTP call has succeeded for
    consumed,       \* history: per user id, the codes verified with no insert of that code since the success
    consumedSinceDelete, \* history: per user id, the codes verified with no insert of that code since the verifying call deleted the ledger rows
    coupons,        \* table coupons, in insertion order (created_at order)
    assets,         \* the asset store: the public ids of the images it holds
    cleanup         \* the cleanup job: where it stands and the candidates it selected

authVars == <<users, otp_codes, otpSucceeded, consumed, consumedSinceDelete>>
couponVars == <<coupons, assets, cleanup>>

----------------------------------------------------------------------------
(* Inputs *)

Clients == {"c1", "c2"}

Emails == {"ann@x.io", "bob@x.io"}
MalformedEmail == "not-an-email"
Phones == {"555-0101", "555-0102"}
GoodPassword == "secret1"
ShortPassword == "abc"
WrongPassword == "secret2"
Codes == {"111111", "222222"}
MalformedCode == "12ab"

UserIds == 1..Cardinality(Emails)

\* Bound: the number of clock ticks taken while OTP codes are outstanding.
MaxOtpTicks == 2

----------------------------------------------------------------------------
(* Records *)

NoCtx == [op |-> "none"]
NoResp == [op |-> "none"]
NoToken == [id |-> 0, email |-> "", ttl |-> "none"]

\* jwt.sign({id, email}, secret, {expiresIn})
Token(id, email, ttl) == [id |-> id, email |-> email, ttl |-> ttl]

\* What a client can put in the Authorization header: nothing, a string that
\* jwt.verify rejects, or a token this service signed.  Tokens are signed for
\* {id, email} of a stored user only (signup, login, verifyOTP), rows of users
\* are never deleted and id and email never change, so the signed tokens are
\* exactly those of the stored users.
NoBearer == [kind |-> "none", id |-> 0, email |-> ""]
BadBearer == [kind |-> "invalid", id |-> 0, email |-> ""]
BearerOf(i) == [kind |-> "signed", id |-> i, email |-> users[i].email]
Bearers == {NoBearer, BadBearer} \cup {BearerOf(i) : i \in DOMAIN users}

\* A token signed for a user whose row is gone: no row ever has this id.
VanishedBearer ==
    [kind |-> "signed", id |-> Cardinality(Emails) + 1, email |-> "gone@x.io"]
GuardBearers == Bearers \cup {VanishedBearer}

\* bcrypt.hash / bcrypt.compare
Hash(password) == [bcrypt |-> password]
verifyPassword(plainPassword, hashedPassword) == hashedPassword = Hash(plainPassword)

OtpExpiryMinutes == 10
OtpTick == (OtpExpiryMinutes * 60) \div 2

----------------------------------------------------------------------------
(* The user model *)

findByEmail(email) ==
    LET hits == {i \in DOMAIN users : users[i].email = email}
    IN  IF hits = {} THEN 0 ELSE CHOOSE i \in hits : \A j \in hits : i <= j

findByPhone(phone) ==
    LET hits == {i \in DOMAIN users : users[i].phone = phone}
    IN  IF hits = {} THEN 0 ELSE CHOOSE i \in hits : \A j \in hits : i <= j

findById(id) == IF id \in DOMAIN users THEN id ELSE 0

\* Faulty variant: the table without its UNIQUE constraints.
InsertUserNoConstraint(email, phone, hashed) ==
    Append(users, [email |-> email, phone |-> phone, password |-> hashed,
                   is_verified |-> FALSE])

\* Faulty variant: accounts that are born verified.
InsertUserVerified(email, phone, hashed) ==
    IF findByEmail(email) # 0 \/ findByPhone(phone) # 0
    THEN users
    ELSE Append(users, [email |-> email, phone |-> phone, password |-> hashed,
                        is_verified |-> TRUE])

\* INSERT INTO users against UNIQUE(email) and UNIQUE(phone): the rows after
\* the statement; a violation raises and leaves the table as it was.
InsertUser(email, phone, hashed) ==
    IF findByEmail(email) # 0 \/ findByPhone(phone) # 0
    THEN users
    ELSE Append(users, [email |-> email, phone |-> phone, password |-> hashed,
                        is_verified |-> FALSE])

\* signupSchema (Joi): a well-formed email, a password of 6 characters or
\* more, confirmPassword equal to password.
signupSchemaValid(body) ==
    /\ body.useremail # MalformedEmail
    /\ body.password # ShortPassword
    /\ body.confirmPassword = body.password

SignupBodies ==
    [useremail : Emails \cup {MalformedEmail}, userphone : Phones,
     password : {GoodPassword, ShortPassword}, confirmPassword : {GoodPassword}]

loginSchemaValid(body) == body.useremail # MalformedEmail

LoginBodies ==
    [useremail : Emails \cup {MalformedEmail},
     userpassword : {GoodPassword, WrongPassword}, RememberMe : BOOLEAN]

UserView(i) ==
    [id |-> i, email |-> users[i].email, phone |-> users[i].phone,
     is_verified |-> users[i].is_verified]

----------------------------------------------------------------------------
(* Responses *)

Reply(op, status, message, token) ==
    [op |-> op, status |-> status, message |-> message, token |-> token]

Finish(p, r) ==
    /\ pc' = [pc EXCEPT ![p] = "done"]
    /\ resp' = [resp EXCEPT ![p] = r]

Goto(p, label, c) ==
    /\ pc' = [pc EXCEPT ![p] = label]
    /\ ctx' = [ctx EXCEPT ![p] = c]
    /\ UNCHANGED resp

\* The client reads the response; its slot is free for the next request.
Return(p) ==
    /\ pc[p] = "done"
    /\ pc' = [pc EXCEPT ![p] = "idle"]
    /\ ctx' = [ctx EXCEPT ![p] = NoCtx]
    /\ resp' = [resp EXCEPT ![p] = NoResp]
    /\ UNCHANGED <<now, authVars, couponVars, users_profiles>>

----------------------------------------------------------------------------
(* AuthController.signup *)

SignupFindByEmail(p, body) ==
    /\ pc[p] = "idle"
    /\ IF ~signupSchemaValid(body)
       THEN /\ Finish(p, Reply("signup", 400, "validation", NoToken))
            /\ ctx' = [ctx EXCEPT ![p] = [op |-> "signup", body |-> body]]
       ELSE IF findByEmail(body.useremail) # 0
       THEN /\ Finish(p, Reply("signup", 205, "User with this email already exists", NoToken))
            /\ ctx' = [ctx EXCEPT ![p] = [op |-> "signup", body |-> body]]
       ELSE Goto(p, "signup_phone", [op |-> "signup", body |-> body])
    /\ UNCHANGED <<couponVars, users_profiles, now, authVars>>

SignupFindByPhone(p) ==
    /\ pc[p] = "signup_phone"
    /\ IF findByPhone(ctx[p].body.userphone) # 0
       THEN /\ Finish(p, Reply("signup", 205, "User with this phone already exists", NoToken))
            /\ UNCHANGED ctx
       ELSE Goto(p, "signup_create", ctx[p])
    /\ UNCHANGED <<couponVars, users_profiles, now, authVars>>

\* UserModel.createUser returns null when the INSERT raises.
SignupCreateUser(p) ==
    /\ pc[p] = "signup_create"
    /\ LET body == ctx[p].body
           rows == InsertUser(body.useremail, body.userphone, Hash(body.password))
           id == Len(rows)
       IN  /\ users' = rows
           /\ IF rows = users
              THEN Finish(p, Reply("signup", 500, "Failed to create user", NoToken))
              ELSE Finish(p, Reply("signup", 200, "Signup successful!",
                                   Token(id, body.useremail, "1d")))
    /\ UNCHANGED <<couponVars, users_profiles, now, ctx, otp_codes, otpSucceeded, consumed, consumedSinceDelete>>

----------------------------------------------------------------------------
(* AuthController.login *)

\* Faulty variant: login that does not look at is_verified.
LoginReplyNoVerifiedCheck(body) ==
    LET u == findByEmail(body.useremail)
    IN  IF ~loginSchemaValid(body)
        THEN Reply("login", 400, "validation", NoToken)
        ELSE IF u = 0
        THEN Reply("login", 401, "Invalid email or password", NoToken)
        ELSE IF ~verifyPassword(body.userpassword, users[u].password)
        THEN Reply("login", 401, "Invalid email or password", NoToken)
        ELSE Reply("login", 200, "Login successful",
                   Token(u, users[u].email, IF body.RememberMe THEN "30d" ELSE "1d"))

\* Faulty variant: login that tells an unknown email from a wrong password.
LoginReplyNamesUnknownEmail(body) ==
    LET u == findByEmail(body.useremail)
    IN  IF ~loginSchemaValid(body)
        THEN Reply("login", 400, "validation", NoToken)
        ELSE IF u = 0
        THEN Reply("login", 404, "User not found", NoToken)
        ELSE IF ~verifyPassword(body.userpassword, users[u].password)
        THEN Reply("login", 401, "Invalid email or password", NoToken)
        ELSE IF ~users[u].is_verified
        THEN Reply("login", 203, "Please verify your account", NoToken)
        ELSE Reply("login", 200, "Login successful",
                   Token(u, users[u].email, IF body.RememberMe THEN "30d" ELSE "1d"))

\* login: 400 for a malformed body, 401 for an unknown email or a wrong
\* password, 203 while the account is not verified, else 200 with a token.
LoginReply(body) ==
    LET u == findByEmail(body.useremail)
    IN  IF ~loginSchemaValid(body)
        THEN Reply("login", 400, "validation", NoToken)
        ELSE IF u = 0
        THEN Reply("login", 401, "Invalid email or password", NoToken)
        ELSE IF ~verifyPassword(body.userpassword, users[u].password)
        THEN Reply("login", 401, "Invalid email or password", NoToken)
        ELSE IF ~users[u].is_verified
        THEN Reply("login", 203, "Please verify your account", NoToken)
        ELSE Reply("login", 200, "Login successful",
                   Token(u, users[u].email, IF body.RememberMe THEN "30d" ELSE "1d"))

Login(p, body) ==
    /\ pc[p] = "idle"
    /\ Finish(p, LoginReply(body))
    /\ ctx' = [ctx EXCEPT ![p] = [op |-> "login", body |-> body]]
    /\ UNCHANGED <<couponVars, users_profiles, now, authVars>>

----------------------------------------------------------------------------
(* The session guard: middlewares/authMiddleware.ts verifyToken *)

GuardResult(bearer, status, message, id, email) ==
    [status |-> status, message |-> message, id |-> id, email |-> email,
     bearer |-> bearer]

\* Faulty variant: every failure of the guard answers 401.
verifyTokenAlwaysUnauthorized(bearer) ==
    IF bearer.kind = "none"
    THEN GuardResult(bearer, 401, "No token provided", 0, "")
    ELSE IF bearer.kind = "invalid" \/ findById(bearer.id) = 0
    THEN GuardResult(bearer, 401, "Invalid or expired token", 0, "")
    ELSE GuardResult(bearer, 200, "next", bearer.id, users[bearer.id].email)

\* verifyToken: 401 without a token, 401 when jwt.verify throws (signature,
\* expiry, shape), 404 when the user of the token has no row; otherwise
\* req.user is the id and email of the row and the handler runs.
verifyToken(bearer) ==
    IF bearer.kind = "none"
    THEN GuardResult(bearer, 401, "No token provided", 0, "")
    ELSE IF bearer.kind = "invalid"
    THEN GuardResult(bearer, 401, "Invalid or expired token", 0, "")
    ELSE IF findById(bearer.id) = 0
    THEN GuardResult(bearer, 404, "User not found", 0, "")
    ELSE GuardResult(bearer, 200, "next", bearer.id, users[bearer.id].email)

----------------------------------------------------------------------------
(* utils/otpUtils.ts: the OTP ledger *)

OtpRow(userId, otp, type, expiresAt) ==
    [user_id |-> userId, otp |-> otp, type |-> type, expires_at |-> expiresAt]

\* DELETE FROM otp_codes WHERE user_id = $1 AND type = $2
DeleteOtps(rows, userId, type) ==
    SelectSeq(rows, LAMBDA r : ~(r.user_id = userId /\ r.type = type))

\* Faulty variant: the SELECT without its expires_at condition.
SelectOtpsAnyAge(rows, userId, otp, type) ==
    SelectSeq(rows, LAMBDA r : r.user_id = userId /\ r.otp = otp /\ r.type = type)

\* Faulty variant: the SELECT without its user_id condition.
SelectOtpsAnyUser(rows, userId, otp, type) ==
    SelectSeq(rows, LAMBDA r : r.otp = otp /\ r.type = type /\ r.expires_at > now)

\* SELECT * FROM otp_codes WHERE user_id = $1 AND otp = $2 AND type = $3
\*   AND expires_at > NOW()
SelectOtps(rows, userId, otp, type) ==
    SelectSeq(rows, LAMBDA r : /\ r.user_id = userId
                               /\ r.otp = otp
                               /\ r.type = type
                               /\ r.expires_at > now)

\* The locals of an issuance: expiresAt is computed on entry to storeOTP,
\* before its DELETE is awaited.
IssueCtx(op, g, otp) ==
    [op |-> op, user_id |-> g.id, email |-> g.email, bearer |-> g.bearer,
     otp |-> otp, expiresAt |-> now + OtpExpiryMinutes * 60]

GuardCtx(op, g) ==
    [op |-> op, user_id |-> g.id, email |-> g.email, bearer |-> g.bearer]

\* The locals of selectVerificationMode: the two flags of its body too.
ModeCtx(c, emailcheck, phonecheck) ==
    c @@ [emailcheck |-> emailcheck, phonecheck |-> phonecheck]

\* AuthController.selectVerificationMode, up to storeOTP's first statement.
\* otp is what generateOTP() draws.
SelectVerificationMode(p, bearer, emailcheck, phonecheck, otp) ==
    /\ pc[p] = "idle"
    /\ LET g == verifyToken(bearer)
           op == "selectVerificationMode"
           guarded == ModeCtx(GuardCtx(op, g), emailcheck, phonecheck)
       IN  IF g.status # 200
           THEN /\ Finish(p, Reply(op, g.status, g.message, NoToken))
                /\ ctx' = [ctx EXCEPT ![p] = guarded]
           ELSE IF ~emailcheck /\ ~phonecheck
           THEN /\ Finish(p, Reply(op, 400, "Please select a verification method", NoToken))
                /\ ctx' = [ctx EXCEPT ![p] = guarded]
           ELSE IF emailcheck
           THEN Goto(p, "otp_delete",
                     ModeCtx(IssueCtx(op, g, otp), emailcheck, phonecheck))
           ELSE /\ Finish(p, Reply(op, 200, "Phone verification selected", NoToken))
                /\ ctx' = [ctx EXCEPT ![p] = guarded]
    /\ UNCHANGED <<couponVars, users_profiles, now, authVars>>

\* AuthController.resendOTP, up to storeOTP's first statement.
ResendOTP(p, bearer, otp) ==
    /\ pc[p] = "idle"
    /\ LET g == verifyToken(bearer)
           op == "resendOTP"
       IN  IF g.status # 200
           THEN /\ Finish(p, Reply(op, g.status, g.message, NoToken))
                /\ ctx' = [ctx EXCEPT ![p] = GuardCtx(op, g)]
           ELSE Goto(p, "otp_delete", IssueCtx(op, g, otp))
    /\ UNCHANGED <<couponVars, users_profiles, now, authVars>>

\* storeOTP: DELETE the rows of (user, type).
StoreOTPDelete(p) ==
    /\ pc[p] = "otp_delete"
    /\ otp_codes' = DeleteOtps(otp_codes, ctx[p].user_id, "email")
    /\ pc' = [pc EXCEPT ![p] = "otp_insert"]
    /\ UNCHANGED <<couponVars, users_profiles, now, users, ctx, resp, otpSucceeded, consumed, consumedSinceDelete>>

\* storeOTP: INSERT the new row.  A verifyOTP call of the same user that has
\* deleted the rows and not yet updated the user notes that its code was
\* stored again.
StoreOTPInsert(p) ==
    /\ pc[p] = "otp_insert"
    /\ LET u == ctx[p].user_id
           c == ctx[p].otp
       IN  /\ otp_codes' = Append(otp_codes, OtpRow(u, c, "email", ctx[p].expiresAt))
           /\ consumed' = [consumed EXCEPT ![u] = @ \ {c}]
           /\ consumedSinceDelete' = [consumedSinceDelete EXCEPT ![u] = @ \ {c}]
           /\ ctx' = [q \in Clients |->
                        IF pc[q] = "verify_update" /\ ctx[q].user_id = u /\ ctx[q].otp = c
                        THEN [ctx[q] EXCEPT !.reissued = TRUE]
                        ELSE ctx[q]]
    /\ pc' = [pc EXCEPT ![p] = "otp_send"]
    /\ UNCHANGED <<couponVars, users_profiles, now, users, resp, otpSucceeded>>

\* Faulty variant: a failed dispatch takes the stored code back.
SendOTPEmailRollback(p, sent) ==
    /\ pc[p] = "otp_send"
    /\ IF sent
       THEN /\ Finish(p, Reply(ctx[p].op, 200, "OTP sent successfully", NoToken))
            /\ UNCHANGED otp_codes
       ELSE /\ Finish(p, Reply(ctx[p].op, 500, "Failed to send OTP", NoToken))
            /\ otp_codes' = DeleteOtps(otp_codes, ctx[p].user_id, "email")
    /\ UNCHANGED <<couponVars, users_profiles, now, ctx, users, otpSucceeded,
                   consumed, consumedSinceDelete>>

\* sendOTPEmail: sent is what the mail collaborator answers.
SendOTPEmail(p, sent) ==
    /\ pc[p] = "otp_send"
    /\ IF sent
       THEN Finish(p, Reply(ctx[p].op, 200,
                            IF ctx[p].op = "resendOTP" THEN "OTP resent successfully"
                                                       ELSE "OTP sent successfully",
                            NoToken))
       ELSE Finish(p, Reply(ctx[p].op, 500, "Failed to send OTP", NoToken))
    /\ UNCHANGED <<couponVars, users_profiles, now, ctx, authVars>>

otpVerificationSchemaValid(code) == code # MalformedCode

\* AuthController.verifyOTP up to the SELECT of verifyOTP (otpUtils).
VerifyOTPSelect(p, bearer, code) ==
    /\ pc[p] = "idle"
    /\ LET g == verifyToken(bearer)
           op == "verifyOTP"
           c == [op |-> op, user_id |-> g.id, email |-> g.email,
                 bearer |-> g.bearer, otp |-> code, reissued |-> FALSE]
       IN  IF g.status # 200
           THEN /\ Finish(p, Reply(op, g.status, g.message, NoToken))
                /\ ctx' = [ctx EXCEPT ![p] = c]
           ELSE IF ~otpVerificationSchemaValid(code)
           THEN /\ Finish(p, Reply(op, 400, "validation", NoToken))
                /\ ctx' = [ctx EXCEPT ![p] = c]
           ELSE IF Len(SelectOtps(otp_codes, g.id, code, "email")) = 0
           THEN /\ Finish(p, Reply(op, 205, "Please enter correct OTP", NoToken))
                /\ ctx' = [ctx EXCEPT ![p] = c]
           ELSE Goto(p, "verify_delete", c)
    /\ UNCHANGED <<couponVars, users_profiles, now, authVars>>

\* Faulty variant: verification that leaves the code in the ledger.
VerifyOTPDeleteSkipped(p) ==
    /\ pc[p] = "verify_delete"
    /\ pc' = [pc EXCEPT ![p] = "verify_update"]
    /\ UNCHANGED <<couponVars, users_profiles, now, users, otp_codes, ctx, resp, otpSucceeded, consumed,
                   consumedSinceDelete>>

\* verifyOTP: DELETE the rows of (user, type).
VerifyOTPDelete(p) ==
    /\ pc[p] = "verify_delete"
    /\ otp_codes' = DeleteOtps(otp_codes, ctx[p].user_id, "email")
    /\ pc' = [pc EXCEPT ![p] = "verify_update"]
    /\ UNCHANGED <<couponVars, users_profiles, now, users, ctx, resp, otpSucceeded, consumed, consumedSinceDelete>>

\* UPDATE users SET is_verified = TRUE WHERE id = $1
SetVerified(rows, id) ==
    [i \in DOMAIN rows |-> IF i = id THEN [rows[i] EXCEPT !.is_verified = TRUE] ELSE rows[i]]

\* verifyOTP: the UPDATE of the user, then the controller's fresh token.
VerifyOTPUpdate(p) ==
    /\ pc[p] = "verify_update"
    /\ LET u == ctx[p].user_id
           c == ctx[p].otp
       IN  /\ users' = SetVerified(users, u)
           /\ otpSucceeded' = otpSucceeded \cup {u}
           /\ consumed' = [consumed EXCEPT ![u] = @ \cup {c}]
           /\ consumedSinceDelete' =
                  IF ctx[p].reissued THEN consumedSinceDelete
                  ELSE [consumedSinceDelete EXCEPT ![u] = @ \cup {c}]
           /\ Finish(p, Reply("verifyOTP", 200, "OTP verified successfully",
                              Token(u, ctx[p].email, "1d")))
    /\ UNCHANGED <<couponVars, users_profiles, now, ctx, otp_codes>>

\* Time passes while codes are outstanding.
TickOtp ==
    /\ now + OtpTick <= MaxOtpTicks * OtpTick
    /\ now' = now + OtpTick
    /\ UNCHANGED <<pc, ctx, resp, authVars, couponVars, users_profiles>>

----------------------------------------------------------------------------
vars == <<now, users, otp_codes, users_profiles, pc, ctx, resp, otpSucceeded, consumed,
          consumedSinceDelete, coupons, assets, cleanup>>

Init ==
    /\ now = 0
    /\ users = <<>>
    /\ otp_codes = <<>>
    /\ users_profiles = <<>>
    /\ pc = [p \in Clients |-> "idle"]
    /\ ctx = [p \in Clients |-> NoCtx]
    /\ resp = [p \in Clients |-> NoResp]
    /\ otpSucceeded = {}
    /\ consumed = [u \in UserIds |-> {}]
    /\ consumedSinceDelete = [u \in UserIds |-> {}]
    /\ coupons = <<>>
    /\ assets = {}
    /\ cleanup = [pc |-> "idle", queue |-> <<>>]

\* The signup and login requests of the OTP scenarios: one account.
AuthSignupBodies ==
    {b \in SignupBodies : b.useremail \in {"ann@x.io", MalformedEmail}
                          /\ b.userphone = "555-0101"}

\* Logins to that account, with the right and a wrong password.
AuthLoginBodies == {b \in LoginBodies : b.useremail = "ann@x.io"}

\* The bodies of selectVerificationMode in the OTP scenarios: at most one
\* method selected.
AuthModes ==
    {m \in [emailcheck : BOOLEAN, phonecheck : BOOLEAN] :
        ~(m.emailcheck /\ m.phonecheck)}

NextAuth ==
    \/ \E p \in Clients, body \in AuthSignupBodies : SignupFindByEmail(p, body)
    \/ \E p \in Clients : SignupFindByPhone(p)
    \/ \E p \in Clients : SignupCreateUser(p)
    \/ \E p \in Clients, body \in AuthLoginBodies : Login(p, body)
    \/ \E p \in Clients, bearer \in Bearers, mode \in AuthModes, otp \in Codes :
            SelectVerificationMode(p, bearer, mode.emailcheck, mode.phonecheck, otp)
    \/ \E p \in Clients, bearer \in Bearers, otp \in Codes : ResendOTP(p, bearer, otp)
    \/ \E p \in Clients : StoreOTPDelete(p)
    \/ \E p \in Clients : StoreOTPInsert(p)
    \/ \E p \in Clients, sent \in BOOLEAN : SendOTPEmail(p, sent)
    \/ \E p \in Clients, bearer \in Bearers, code \in Codes \cup {MalformedCode} :
            VerifyOTPSelect(p, bearer, code)
    \/ \E p \in Clients : VerifyOTPDelete(p)
    \/ \E p \in Clients : VerifyOTPUpdate(p)
    \/ \E p \in Clients : Return(p)
    \/ TickOtp

\* Signup, login, OTP issuance and verification for one account.
SpecAuth == Init /\ [][NextAuth]_vars

NextSignup ==
    \/ \E p \in Clients, body \in SignupBodies : SignupFindByEmail(p, body)
    \/ \E p \in Clients : SignupFindByPhone(p)
    \/ \E p \in Clients : SignupCreateUser(p)
    \/ \E p \in Clients, body \in LoginBodies : Login(p, body)
    \/ \E p \in Clients : Return(p)

\* Concurrent signups over every email and phone.
SpecSignup == Init /\ [][NextSignup]_vars

----------------------------------------------------------------------------
(* C1 *)

CorrectCredentials(u, body) ==
    /\ users[u].email = body.useremail
    /\ verifyPassword(body.userpassword, users[u].password)

----------------------------------------------------------------------------
(* C2 *)

UsersUnique ==
    \A i, j \in DOMAIN users :
        i # j => users[i].email # users[j].email /\ users[i].phone # users[j].phone

Registered(body) ==
    \E i \in DOMAIN users :
        users[i].email = body.useremail \/ users[i].phone = body.userphone

\* C2: no two user rows ever share an email or a phone, whatever the
\* interleaving of signups, and a step of a signup whose email or phone is
\* registered when the step is taken adds no row.
C2_SignupKeepsUsersUnique ==
    [][/\ UsersUnique'
       /\ \A p \in Clients :
            (pc'[p] # pc[p] /\ ctx'[p].op = "signup" /\ Registered(ctx'[p].body))
                => users' = users]_vars

\* Two signups with one email both passed the lookups; the INSERT of the
\* second one was refused.
C2_Witness ==
    \E p, q \in Clients :
        /\ pc[p] = "done" /\ resp[p].op = "signup" /\ resp[p].status = 200
        /\ pc[q] = "done" /\ resp[q].op = "signup" /\ resp[q].status = 500
        /\ ctx[p].body.useremail = ctx[q].body.useremail
        /\ Len(users) = 1

----------------------------------------------------------------------------
(* C3 *)

IssuanceInProgress == \E p \in Clients : pc[p] \in {"otp_delete", "otp_insert", "otp_send"}

RowsOf(u, type) == SelectSeq(otp_codes, LAMBDA r : r.user_id = u /\ r.type = type)

\* C3: whenever no issuance call is in progress, the ledger holds at most one
\* row per (user, purpose).
C3_OneRowPerUserAndPurpose ==
    ~IssuanceInProgress => \A u \in UserIds : Len(RowsOf(u, "email")) <= 1

----------------------------------------------------------------------------
(* C4 *)

\* C4 as stated: a verifyOTP call with a code that an earlier call of the
\* same user succeeded with, and that no issuance stored again after that
\* success, answers incorrect-code.
C4_VerifiedCodeRejectedUnlessStoredAfterSuccess ==
    [][\A p \in Clients :
          (/\ pc[p] = "idle"
           /\ ctx'[p].op = "verifyOTP"
           /\ ctx'[p].user_id # 0
           /\ ctx'[p].otp \in consumed[ctx'[p].user_id])
          => (pc'[p] = "done" /\ resp'[p].status = 205)]_vars

\* C4 as amended: ... and that no issuance stored again after the successful
\* call deleted the user's ledger rows.
C4_VerifiedCodeRejectedUnlessStoredAfterDelete ==
    [][\A p \in Clients :
          (/\ pc[p] = "idle"
           /\ ctx'[p].op = "verifyOTP"
           /\ ctx'[p].user_id # 0
           /\ ctx'[p].otp \in consumedSinceDelete[ctx'[p].user_id])
          => (pc'[p] = "done" /\ resp'[p].status = 205)]_vars

\* A second attempt with a verified code was answered incorrect-code.
C4_Witness ==
    \E p \in Clients :
        /\ pc[p] = "done" /\ resp[p].op = "verifyOTP" /\ resp[p].status = 205
        /\ ctx[p].user_id # 0
        /\ ctx[p].otp \in consumedSinceDelete[ctx[p].user_id]


----------------------------------------------------------------------------
(* Coupons: durations and expiration dates *)

\* A duration is text, kept as its sequence of characters so that the
\* pattern of calculateExpirationDate can be matched on it.
Digits == <<"0", "1", "2", "3", "4", "5", "6", "7", "8", "9">>
IsDigit(c) == \E k \in 1..Len(Digits) : Digits[k] = c
DigitValue(c) == (CHOOSE k \in 1..Len(Digits) : Digits[k] = c) - 1
IsSpace(c) == c = " "

\* The pattern carries the flag i: letters match in either case.
Lower(c) ==
    CASE c = "H" -> "h" [] c = "R" -> "r" [] c = "S" -> "s"
      [] c = "M" -> "m" [] c = "I" -> "i" [] c = "N" -> "n"
      [] OTHER -> c

CharAt(s, i) == IF i \in 1..Len(s) THEN Lower(s[i]) ELSE "$"

\* The end (exclusive) of the longest run of digits, resp. blanks, from i.
RECURSIVE DigitsEnd(_, _)
DigitsEnd(s, i) ==
    IF i <= Len(s) /\ IsDigit(s[i]) THEN DigitsEnd(s, i + 1) ELSE i

RECURSIVE SpacesEnd(_, _)
SpacesEnd(s, i) ==
    IF i <= Len(s) /\ IsSpace(s[i]) THEN SpacesEnd(s, i + 1) ELSE i

\* parseInt of the digits s[i..j-1].
RECURSIVE parseInt(_, _, _)
parseInt(s, i, j) ==
    IF j <= i THEN 0 ELSE parseInt(s, i, j - 1) * 10 + DigitValue(s[j - 1])

\* (\d+)hrs? from i: the end of the match, 0 when there is none.
HrsEnd(s, i) ==
    LET j == DigitsEnd(s, i) IN
    IF j > i /\ CharAt(s, j) = "h" /\ CharAt(s, j + 1) = "r"
    THEN (IF CharAt(s, j + 2) = "s" THEN j + 3 ELSE j + 2)
    ELSE 0

\* (\d+)min? from i: the end of the match, 0 when there is none.
MinEnd(s, i) ==
    LET j == DigitsEnd(s, i) IN
    IF j > i /\ CharAt(s, j) = "m" /\ CharAt(s, j + 1) = "i"
    THEN (IF CharAt(s, j + 2) = "n" THEN j + 3 ELSE j + 2)
    ELSE 0

NoMatch == [found |-> FALSE, hrs |-> 0, min |-> 0]

\* The three alternatives tried in order at position i.  In the first, a
\* shorter "hr" (without the s) or fewer blanks cannot help: what follows
\* must be a digit.
MatchAt(s, i) ==
    LET h == HrsEnd(s, i)
        k == SpacesEnd(s, h)
    IN  IF h # 0 /\ MinEnd(s, k) # 0
        THEN [found |-> TRUE, hrs |-> parseInt(s, i, DigitsEnd(s, i)),
              min |-> parseInt(s, k, DigitsEnd(s, k))]
        ELSE IF h # 0
        THEN [found |-> TRUE, hrs |-> parseInt(s, i, DigitsEnd(s, i)), min |-> 0]
        ELSE IF MinEnd(s, i) # 0
        THEN [found |-> TRUE, hrs |-> 0, min |-> parseInt(s, i, DigitsEnd(s, i))]
        ELSE NoMatch

\* duration.match(...): the leftmost position where an alternative matches.
RECURSIVE durationMatch(_, _)
durationMatch(s, i) ==
    IF i > Len(s) THEN NoMatch
    ELSE IF MatchAt(s, i).found THEN MatchAt(s, i)
    ELSE durationMatch(s, i + 1)

totalMinutes(duration) ==
    LET m == durationMatch(duration, 1) IN
    IF m.found THEN m.hrs * 60 + m.min ELSE 0

\* The clock counts seconds.
calculateExpirationDate(duration, at) == at + totalMinutes(duration) * 60


----------------------------------------------------------------------------
(* Coupons: the table and its statements *)

NoTime == -1            \* NULL in a timestamp column
NoImage == "none"       \* NULL in image_public_id; no file in a request
NoText == <<>>          \* a field the request does not supply

SweepIntervalSeconds == 60
RetentionDays == 7
RetentionSeconds == RetentionDays * 24 * 60 * 60
MaxCouponTicks == 2

Duration1min == <<"1", "m", "i", "n">>
DurationSoon == <<"s", "o", "o", "n">>

\* bogo, discount and audience are stored and updated as brand_name is.
CouponRow(couponId, brandName, duration, imagePublicId, expiresAt) ==
    [coupon_id |-> couponId, brand_name |-> brandName, duration |-> duration,
     image_public_id |-> imagePublicId, expires_at |-> expiresAt,
     is_expired |-> FALSE, expired_at |-> NoTime]

\* A row as the statements return it: `*` followed by the computed column
\* `CASE WHEN expires_at <= NOW() ... as is_expired`.  Both columns are named
\* is_expired and the row object keeps the one read last, the computed one.
Returned(row, at) == [row EXCEPT !.is_expired = (row.expires_at <= at)]

RECURSIVE Reverse(_)
Reverse(rows) ==
    IF rows = <<>> THEN <<>> ELSE Append(Reverse(Tail(rows)), Head(rows))

HasCoupon(rows, couponId) == \E k \in 1..Len(rows) : rows[k].coupon_id = couponId
CouponAt(rows, couponId) == rows[CHOOSE k \in 1..Len(rows) : rows[k].coupon_id = couponId]

DeleteCouponRow(rows, couponId) ==
    LET Keep(r) == r.coupon_id # couponId IN SelectSeq(rows, Keep)

\* UPDATE coupons SET is_expired = true, expired_at = NOW()
\* WHERE expires_at <= NOW() AND (is_expired = false OR is_expired IS NULL)
markExpiredCoupons(rows, at) ==
    [k \in 1..Len(rows) |->
        IF rows[k].expires_at <= at /\ ~rows[k].is_expired
        THEN [rows[k] EXCEPT !.is_expired = TRUE, !.expired_at = at]
        ELSE rows[k]]

\* Faulty variant: the filter trusts the stored flag alone.
SelectActiveByFlagOnly(rows, at) ==
    LET Keep(r) == ~r.is_expired
        kept == SelectSeq(rows, Keep)
    IN  Reverse([k \in 1..Len(kept) |-> Returned(kept[k], at)])

\* GET /: WHERE (is_expired = false OR is_expired IS NULL) AND expires_at > NOW()
\* ORDER BY created_at DESC
SelectActive(rows, at) ==
    LET Keep(r) == ~r.is_expired /\ r.expires_at > at
        kept == SelectSeq(rows, Keep)
    IN  Reverse([k \in 1..Len(kept) |-> Returned(kept[k], at)])

\* GET /all: every row, ORDER BY created_at DESC
SelectAll(rows, at) == Reverse([k \in 1..Len(rows) |-> Returned(rows[k], at)])

\* Cleanup: WHERE is_expired = true AND expired_at <= NOW() - INTERVAL 'N days'
SelectOldExpired(rows, at) ==
    LET Keep(r) == r.is_expired /\ r.expired_at # NoTime
                   /\ r.expired_at <= at - RetentionSeconds
    IN  SelectSeq(rows, Keep)

\* The public id the upload gives a file: `${req.body.couponId || "coupon"}_${Date.now()}`
PublicId(couponId, at) == <<IF couponId = "" THEN "coupon" ELSE couponId, at>>

CouponReply(op, status, error, rows) ==
    [op |-> op, status |-> status, error |-> error, rows |-> rows]


----------------------------------------------------------------------------
(* Coupon routes.  A step runs a handler from one awaited call to the next. *)

\* deleteCloudinaryImage, awaited by a handler that then answers: the
\* removal is best effort, a failure is logged and the handler goes on.
DeleteCloudinaryImage(p, ok) ==
    /\ pc[p] = "delete_image"
    /\ assets' = IF ok THEN assets \ {ctx[p].file} ELSE assets
    /\ Finish(p, ctx[p].pending)
    /\ UNCHANGED <<now, authVars, users_profiles, ctx, coupons, cleanup>>

\* Faulty variant: the answer is sent and the image is left in the store.
AnswerWithoutDiscard(p, op, file, r) ==
    Finish(p, r) /\ ctx' = [ctx EXCEPT ![p] = [op |-> op]]

\* Answer r, after removing the image `file` when there is one.
AnswerAfterDiscard(p, op, file, r) ==
    IF file # NoImage
    THEN Goto(p, "delete_image", [op |-> op, file |-> file, pending |-> r])
    ELSE Finish(p, r) /\ ctx' = [ctx EXCEPT ![p] = [op |-> op]]

\* POST /: the upload, the validation and the expiration date.
CreateCoupon(p, body, hasFile) ==
    LET file == IF hasFile THEN PublicId(body.couponId, now) ELSE NoImage IN
    /\ pc[p] = "idle"
    /\ assets' = IF hasFile THEN assets \cup {file} ELSE assets
    /\ IF body.brandName = "" \/ body.couponId = "" \/ body.audience = ""
          \/ body.duration = NoText
       THEN AnswerAfterDiscard(p, "create", file,
                CouponReply("create", 400, "Missing required fields", <<>>))
       ELSE Goto(p, "create_insert",
                [op |-> "create", body |-> body, file |-> file,
                 expiresAt |-> calculateExpirationDate(body.duration, now)])
    /\ UNCHANGED <<now, authVars, users_profiles, coupons, cleanup>>

\* Faulty variant: the INSERT into a table without UNIQUE(coupon_id).
CreateCouponInsertNoConstraint(p) ==
    LET c == ctx[p]
        row == CouponRow(c.body.couponId, c.body.brandName, c.body.duration,
                         c.file, c.expiresAt)
    IN
    /\ pc[p] = "create_insert"
    /\ coupons' = Append(coupons, row)
    /\ Finish(p, CouponReply("create", 201, "", <<Returned(row, now)>>))
    /\ UNCHANGED <<now, authVars, users_profiles, assets, cleanup, ctx>>

\* POST /: the INSERT; coupon_id is UNIQUE (error 23505).
CreateCouponInsert(p) ==
    LET c == ctx[p]
        row == CouponRow(c.body.couponId, c.body.brandName, c.body.duration,
                         c.file, c.expiresAt)
    IN
    /\ pc[p] = "create_insert"
    /\ IF HasCoupon(coupons, c.body.couponId)
       THEN /\ AnswerAfterDiscard(p, "create", c.file,
                   CouponReply("create", 400, "Coupon ID already exists", <<>>))
            /\ UNCHANGED coupons
       ELSE /\ coupons' = Append(coupons, row)
            /\ Finish(p, CouponReply("create", 201, "", <<Returned(row, now)>>))
            /\ UNCHANGED ctx
    /\ UNCHANGED <<now, authVars, users_profiles, assets, cleanup>>


\* POST /: the INSERT raises an error other than 23505 (the store fails).
CreateCouponInsertFault(p) ==
    /\ pc[p] = "create_insert"
    /\ AnswerAfterDiscard(p, "create", ctx[p].file,
            CouponReply("create", 500, "Failed to create coupon", <<>>))
    /\ UNCHANGED <<now, authVars, users_profiles, coupons, assets, cleanup>>

\* Faulty variant: a new duration moves expires_at but keeps the flag read.
UpdateValuesKeepFlag(existing, body, file, at) ==
    LET changed == body.duration # NoText /\ body.duration # existing.duration IN
    [image_public_id |-> IF file # NoImage THEN file ELSE existing.image_public_id,
     expiresAt |-> IF changed THEN calculateExpirationDate(body.duration, at)
                   ELSE existing.expires_at,
     isExpired |-> existing.is_expired]

\* PUT /:id, from the row read to the UPDATE: the values the handler will
\* write.  The flag is reset only when a duration is supplied that differs
\* from the one read.
UpdateValues(existing, body, file, at) ==
    LET changed == body.duration # NoText /\ body.duration # existing.duration IN
    [image_public_id |-> IF file # NoImage THEN file ELSE existing.image_public_id,
     expiresAt |-> IF changed THEN calculateExpirationDate(body.duration, at)
                   ELSE existing.expires_at,
     isExpired |-> IF changed THEN FALSE ELSE existing.is_expired]

\* PUT /:id: the upload and the SELECT of the existing row.
UpdateCoupon(p, couponId, body, hasFile) ==
    LET file == IF hasFile THEN PublicId("", now) ELSE NoImage
        existing == CouponAt(coupons, couponId)
        c == [op |-> "update", id |-> couponId, body |-> body, file |-> file,
              existing |-> existing]
    IN
    /\ pc[p] = "idle"
    /\ assets' = IF hasFile THEN assets \cup {file} ELSE assets
    /\ IF ~HasCoupon(coupons, couponId)
       THEN AnswerAfterDiscard(p, "update", file,
                CouponReply("update", 404, "Coupon not found", <<>>))
       ELSE IF hasFile /\ existing.image_public_id # NoImage
       THEN Goto(p, "update_delete_old", c)
       ELSE Goto(p, "update_write",
                 [c EXCEPT !.op = "update"] @@
                 [values |-> UpdateValues(existing, body, file, now)])
    /\ UNCHANGED <<now, authVars, users_profiles, coupons, cleanup>>

\* PUT /:id: the image the row had is removed before the new one is written.
UpdateCouponDeleteOldImage(p, ok) ==
    LET c == ctx[p] IN
    /\ pc[p] = "update_delete_old"
    /\ assets' = IF ok THEN assets \ {c.existing.image_public_id} ELSE assets
    /\ Goto(p, "update_write",
            c @@ [values |-> UpdateValues(c.existing, c.body, c.file, now)])
    /\ UNCHANGED <<now, authVars, users_profiles, coupons, cleanup>>

\* PUT /:id: the UPDATE.  It writes every column from the row read earlier and
\* the request; when the row is gone it changes nothing and the handler
\* answers 200 with no row.
UpdateCouponWrite(p) ==
    LET c == ctx[p]
        Written(r) ==
            [r EXCEPT !.brand_name = IF c.body.brandName # "" THEN c.body.brandName
                                     ELSE c.existing.brand_name,
                      !.duration = IF c.body.duration # NoText THEN c.body.duration
                                   ELSE c.existing.duration,
                      !.image_public_id = c.values.image_public_id,
                      !.expires_at = c.values.expiresAt,
                      !.is_expired = c.values.isExpired]
    IN
    /\ pc[p] = "update_write"
    /\ coupons' = [k \in 1..Len(coupons) |->
                      IF coupons[k].coupon_id = c.id THEN Written(coupons[k])
                      ELSE coupons[k]]
    /\ Finish(p, CouponReply("update", 200, "",
                  IF HasCoupon(coupons, c.id)
                  THEN <<Returned(Written(CouponAt(coupons, c.id)), now)>>
                  ELSE <<>>))
    /\ UNCHANGED <<now, authVars, users_profiles, ctx, assets, cleanup>>

\* PUT /:id: the UPDATE raises (the store fails); the catch block removes the
\* image uploaded with the request and answers 500.
UpdateCouponWriteFault(p) ==
    /\ pc[p] = "update_write"
    /\ AnswerAfterDiscard(p, "update", ctx[p].file,
            CouponReply("update", 500, "Failed to update coupon", <<>>))
    /\ UNCHANGED <<now, authVars, users_profiles, coupons, assets, cleanup>>

\* Faulty variant: the row is removed and its image is left in the store.
DeleteCouponKeepImage(p, couponId) ==
    LET row == CouponAt(coupons, couponId)
        c == [op |-> "delete", id |-> couponId]
    IN
    /\ pc[p] = "idle"
    /\ ctx' = [ctx EXCEPT ![p] = c]
    /\ IF ~HasCoupon(coupons, couponId)
       THEN /\ Finish(p, CouponReply("delete", 404, "Coupon not found", <<>>))
            /\ UNCHANGED coupons
       ELSE /\ coupons' = DeleteCouponRow(coupons, couponId)
            /\ Finish(p, CouponReply("delete", 200, "", <<row>>))
    /\ UNCHANGED <<now, authVars, users_profiles, assets, cleanup>>

\* DELETE /:id: the row goes first (DELETE ... RETURNING *), then its image.
DeleteCoupon(p, couponId) ==
    LET row == CouponAt(coupons, couponId)
        c == [op |-> "delete", id |-> couponId]
    IN
    /\ pc[p] = "idle"
    /\ IF ~HasCoupon(coupons, couponId)
       THEN /\ Finish(p, CouponReply("delete", 404, "Coupon not found", <<>>))
            /\ ctx' = [ctx EXCEPT ![p] = c]
            /\ UNCHANGED coupons
       ELSE /\ coupons' = DeleteCouponRow(coupons, couponId)
            /\ IF row.image_public_id = NoImage
               THEN /\ Finish(p, CouponReply("delete", 200, "", <<row>>))
                    /\ ctx' = [ctx EXCEPT ![p] = c]
               ELSE Goto(p, "delete_image",
                         c @@ [file |-> row.image_public_id,
                               pending |-> CouponReply("delete", 200, "", <<row>>)])
    /\ UNCHANGED <<now, authVars, users_profiles, assets, cleanup>>

\* GET /:id: the SELECT.  `unflagged` records, for the properties, that the
\* stored row was past its expiration date and not flagged when it was read.
GetCouponById(p, couponId) ==
    LET row == CouponAt(coupons, couponId) IN
    /\ pc[p] = "idle"
    /\ IF ~HasCoupon(coupons, couponId)
       THEN AnswerAfterDiscard(p, "getById", NoImage,
                CouponReply("getById", 404, "Coupon not found", <<>>))
       ELSE Goto(p, "get_check",
                 [op |-> "getById", id |-> couponId, coupon |-> Returned(row, now),
                  unflagged |-> (row.expires_at <= now /\ ~row.is_expired)])
    /\ UNCHANGED <<now, authVars, couponVars, users_profiles>>

\* GET /:id: the handler, holding the row, compares its expiration date with
\* its own clock and looks at the is_expired the row object carries.
GetCouponByIdCheck(p) ==
    LET c == ctx[p] IN
    /\ pc[p] = "get_check"
    /\ IF c.coupon.expires_at <= now /\ ~c.coupon.is_expired
       THEN Goto(p, "get_mark", c)
       ELSE Finish(p, CouponReply("getById", 200, "", <<c.coupon>>)) /\ UNCHANGED ctx
    /\ UNCHANGED <<now, authVars, couponVars, users_profiles>>

\* GET /:id: UPDATE coupons SET is_expired = true, expired_at = NOW()
\* WHERE coupon_id = $1
GetCouponByIdMark(p) ==
    LET c == ctx[p] IN
    /\ pc[p] = "get_mark"
    /\ coupons' = [k \in 1..Len(coupons) |->
                      IF coupons[k].coupon_id = c.id
                      THEN [coupons[k] EXCEPT !.is_expired = TRUE, !.expired_at = now]
                      ELSE coupons[k]]
    /\ Finish(p, CouponReply("getById", 200, "",
                             <<[c.coupon EXCEPT !.is_expired = TRUE]>>))
    /\ UNCHANGED <<now, authVars, users_profiles, ctx, assets, cleanup>>

\* Faulty variant: the list handlers read without sweeping first.
ListSweepSkipped(p, op) ==
    /\ pc[p] = "idle"
    /\ Goto(p, "list_read", [op |-> op, calledAt |-> now])
    /\ UNCHANGED <<now, authVars, couponVars, users_profiles>>

\* GET / and GET /all: markExpiredCoupons first, the SELECT next.
ListSweep(p, op) ==
    /\ pc[p] = "idle"
    /\ coupons' = markExpiredCoupons(coupons, now)
    /\ Goto(p, "list_read", [op |-> op, calledAt |-> now])
    /\ UNCHANGED <<now, authVars, users_profiles, assets, cleanup>>

ListActive(p) == ListSweep(p, "listActive")
ListAll(p) == ListSweep(p, "listAll")

ListRead(p, op, rows) ==
    /\ pc[p] = "list_read"
    /\ ctx[p].op = op
    /\ ctx' = [ctx EXCEPT ![p] = [op |-> op, calledAt |-> ctx[p].calledAt,
                                  readAt |-> now]]
    /\ Finish(p, CouponReply(op, 200, "", rows))
    /\ UNCHANGED <<now, authVars, couponVars, users_profiles>>

ListActiveRead(p) == ListRead(p, "listActive", SelectActive(coupons, now))
ListAllRead(p) == ListRead(p, "listAll", SelectAll(coupons, now))

\* Faulty variant: the expired count trusts the stored flag alone.
StatsCountsByFlagOnly(rows, at) ==
    [total |-> Len(rows),
     active |-> Cardinality({k \in DOMAIN rows :
                    ~rows[k].is_expired /\ rows[k].expires_at > at}),
     expired |-> Cardinality({k \in DOMAIN rows : rows[k].is_expired})]

\* GET /stats/counts, the SELECT: COUNT(*), COUNT(CASE WHEN (is_expired =
\* false OR is_expired IS NULL) AND expires_at > NOW() ...), COUNT(CASE WHEN
\* is_expired = true OR expires_at <= NOW() ...).
StatsCounts(rows, at) ==
    [total |-> Len(rows),
     active |-> Cardinality({k \in DOMAIN rows :
                    ~rows[k].is_expired /\ rows[k].expires_at > at}),
     expired |-> Cardinality({k \in DOMAIN rows :
                    rows[k].is_expired \/ rows[k].expires_at <= at})]

\* GET /stats/counts: markExpiredCoupons first, the counts next.
Stats(p) == ListSweep(p, "stats")

StatsRead(p) ==
    /\ pc[p] = "list_read"
    /\ ctx[p].op = "stats"
    /\ Finish(p, CouponReply("stats", 200, "", <<>>) @@ StatsCounts(coupons, now))
    /\ UNCHANGED <<now, authVars, couponVars, users_profiles, ctx>>

----------------------------------------------------------------------------
(* The scheduled jobs *)

\* Every minute (and POST /mark-expired): markExpiredCoupons.
Sweep ==
    /\ coupons' = markExpiredCoupons(coupons, now)
    /\ UNCHANGED <<now, authVars, users_profiles, pc, ctx, resp, assets, cleanup>>

\* Daily: cleanupOldExpiredCoupons(7) selects its candidates ...
CleanupSelect ==
    LET old == SelectOldExpired(coupons, now) IN
    /\ cleanup.pc = "idle"
    /\ cleanup' = IF old = <<>> THEN cleanup
                  ELSE [pc |-> "next",
                        queue |-> [k \in 1..Len(old) |->
                                      [coupon_id |-> old[k].coupon_id,
                                       image_public_id |-> old[k].image_public_id]]]
    /\ UNCHANGED <<now, authVars, users_profiles, pc, ctx, resp, coupons, assets>>

\* Faulty variant: a failed removal of the image skips the candidate's row.
CleanupDeleteImageBlocking(ok) ==
    /\ cleanup.pc = "next"
    /\ Head(cleanup.queue).image_public_id # NoImage
    /\ assets' = IF ok THEN assets \ {Head(cleanup.queue).image_public_id} ELSE assets
    /\ cleanup' = IF ok THEN [cleanup EXCEPT !.pc = "delete"]
                  ELSE [pc |-> IF Tail(cleanup.queue) = <<>> THEN "idle" ELSE "next",
                        queue |-> Tail(cleanup.queue)]
    /\ UNCHANGED <<now, authVars, users_profiles, pc, ctx, resp, coupons>>

\* ... then, for each of them, removes its image when it has one ...
CleanupDeleteImage(ok) ==
    /\ cleanup.pc = "next"
    /\ Head(cleanup.queue).image_public_id # NoImage
    /\ assets' = IF ok THEN assets \ {Head(cleanup.queue).image_public_id} ELSE assets
    /\ cleanup' = [cleanup EXCEPT !.pc = "delete"]
    /\ UNCHANGED <<now, authVars, users_profiles, pc, ctx, resp, coupons>>

\* ... and its row: DELETE FROM coupons WHERE coupon_id = $1.
CleanupDelete ==
    LET cand == Head(cleanup.queue) IN
    /\ \/ cleanup.pc = "delete"
       \/ cleanup.pc = "next" /\ cand.image_public_id = NoImage
    /\ coupons' = DeleteCouponRow(coupons, cand.coupon_id)
    /\ cleanup' = [pc |-> IF Tail(cleanup.queue) = <<>> THEN "idle" ELSE "next",
                   queue |-> Tail(cleanup.queue)]
    /\ UNCHANGED <<now, authVars, users_profiles, pc, ctx, resp, assets>>

\* The DELETE of a candidate raises: the loop's try/catch logs the error and
\* goes on with the next candidate.
CleanupDeleteFault ==
    /\ \/ cleanup.pc = "delete"
       \/ cleanup.pc = "next" /\ Head(cleanup.queue).image_public_id = NoImage
    /\ cleanup' = [pc |-> IF Tail(cleanup.queue) = <<>> THEN "idle" ELSE "next",
                   queue |-> Tail(cleanup.queue)]
    /\ UNCHANGED <<now, authVars, users_profiles, pc, ctx, resp, coupons, assets>>

\* Time passes: a little more than a sweep interval, or the retention period.
CouponTicks == {SweepIntervalSeconds + 1, RetentionSeconds}
TicksTaken == (now \div RetentionSeconds) + ((now % RetentionSeconds) \div (SweepIntervalSeconds + 1))

TickCoupon(d) ==
    /\ TicksTaken < MaxCouponTicks
    /\ now' = now + d
    /\ UNCHANGED <<pc, ctx, resp, authVars, couponVars, users_profiles>>


----------------------------------------------------------------------------
(* The expiry scenarios: one coupon id, requests without a file; one client
   sends the requests that write a coupon, the other the requests that read. *)

CouponIds == {"C1"}
Writer == "c1"
Reader == "c2"

CreateBodies ==
    [brandName : {"Acme"}, couponId : CouponIds, audience : {"all"},
     duration : {Duration1min, DurationSoon}]

UpdateBodies == [brandName : {""}, duration : {NoText, Duration1min, DurationSoon}]

NextCoupon ==
    \/ \E body \in CreateBodies : CreateCoupon(Writer, body, FALSE)
    \/ CreateCouponInsert(Writer)
    \/ \E id \in CouponIds, body \in UpdateBodies : UpdateCoupon(Writer, id, body, FALSE)
    \/ UpdateCouponWrite(Writer)
    \/ \E id \in CouponIds : DeleteCoupon(Writer, id)
    \/ \E id \in CouponIds : GetCouponById(Reader, id)
    \/ GetCouponByIdCheck(Reader)
    \/ GetCouponByIdMark(Reader)
    \/ ListActive(Reader)
    \/ ListActiveRead(Reader)
    \/ ListAll(Reader)
    \/ ListAllRead(Reader)
    \/ \E p \in Clients : Return(p)
    \/ Sweep
    \/ TickCoupon(SweepIntervalSeconds + 1)

SpecCoupon == Init /\ [][NextCoupon]_vars

\* The retention scenarios: the writes, the sweep and the cleanup job.
NextCleanup ==
    \/ \E body \in CreateBodies : CreateCoupon(Writer, body, FALSE)
    \/ CreateCouponInsert(Writer)
    \/ \E id \in CouponIds, body \in UpdateBodies : UpdateCoupon(Writer, id, body, FALSE)
    \/ UpdateCouponWrite(Writer)
    \/ \E id \in CouponIds : DeleteCoupon(Writer, id)
    \/ Return(Writer)
    \/ Sweep
    \/ CleanupSelect
    \/ CleanupDelete
    \/ \E d \in CouponTicks : TickCoupon(d)

SpecCleanup == Init /\ [][NextCleanup]_vars


\* The image scenarios: requests with and without a file, an asset store
\* whose removals can fail.
NextAssets ==
    \/ \E body \in CreateBodies, hasFile \in BOOLEAN : CreateCoupon(Writer, body, hasFile)
    \/ CreateCouponInsert(Writer)
    \/ \E id \in CouponIds, body \in UpdateBodies, hasFile \in BOOLEAN :
          UpdateCoupon(Writer, id, body, hasFile)
    \/ \E ok \in BOOLEAN : UpdateCouponDeleteOldImage(Writer, ok)
    \/ UpdateCouponWrite(Writer)
    \/ \E id \in CouponIds : DeleteCoupon(Writer, id)
    \/ \E ok \in BOOLEAN : DeleteCloudinaryImage(Writer, ok)
    \/ Return(Writer)
    \/ Sweep
    \/ CleanupSelect
    \/ \E ok \in BOOLEAN : CleanupDeleteImage(ok)
    \/ CleanupDelete
    \/ TickCoupon(RetentionSeconds)

SpecAssets == Init /\ [][NextAssets]_vars

----------------------------------------------------------------------------
(* C5 *)

UpdateWriteBy(p) == pc[p] = "update_write" /\ pc'[p] = "done"

\* C5: the stored is_expired of a coupon goes from true to false only in the
\* write step of an update that supplies a duration different from the
\* stored one; no other step, in any interleaving with the sweep, writes
\* false over a stored true.
C5_FlagRevertsOnlyOnNewDuration ==
    [][\A k \in 1..Len(coupons) :
          LET r == coupons[k] IN
          (/\ r.is_expired
           /\ HasCoupon(coupons', r.coupon_id)
           /\ ~CouponAt(coupons', r.coupon_id).is_expired)
          => \E p \in Clients :
                /\ UpdateWriteBy(p)
                /\ ctx[p].id = r.coupon_id
                /\ ctx[p].body.duration # NoText
                /\ ctx[p].body.duration # r.duration]_vars

----------------------------------------------------------------------------
(* C6 *)

\* C6: the cleanup removes a row only if, when it removes it, the coupon is
\* flagged expired and its expired_at lies at least the retention window in
\* the past; it never removes a coupon re-armed after the candidates were
\* selected.
C6_CleanupRemovesOnlyOldExpired ==
    [][(cleanup.pc # "idle" /\ Len(cleanup'.queue) < Len(cleanup.queue))
        => \A k \in 1..Len(coupons) :
              LET r == coupons[k] IN
              ~HasCoupon(coupons', r.coupon_id)
              => /\ r.is_expired
                 /\ r.expired_at # NoTime
                 /\ r.expired_at + RetentionSeconds <= now]_vars


----------------------------------------------------------------------------
(* C7 *)

Answered(p, op) == pc[p] = "done" /\ resp[p].op = op /\ resp[p].status = 200

\* C7: listActive never returns a coupon whose expires_at is at or before the
\* time of the call, whatever the stored flag is and whether or not a sweep
\* has run: every row it returns expires after the time of its read, which
\* is no earlier than the time of the call.
C7_ListActiveExcludesExpired ==
    \A p \in Clients :
        Answered(p, "listActive")
        => /\ ctx[p].calledAt <= ctx[p].readAt
           /\ \A k \in 1..Len(resp[p].rows) :
                 resp[p].rows[k].expires_at > ctx[p].readAt

\* listActive has just answered with no row while the store holds a coupon
\* that had expired by the time of the call and whose flag is still false.
C7_Witness ==
    \E p \in Clients :
        /\ Answered(p, "listActive")
        /\ resp[p].rows = <<>>
        /\ ctx[p].readAt = now
        /\ \E k \in 1..Len(coupons) :
              coupons[k].expires_at <= ctx[p].calledAt /\ ~coupons[k].is_expired

----------------------------------------------------------------------------
(* C8 *)

ReadBy(p, op) == pc[p] = "list_read" /\ pc'[p] = "done" /\ ctx[p].op = op
SweepBy(p, op) == pc[p] = "idle" /\ pc'[p] = "list_read" /\ ctx'[p].op = op

----------------------------------------------------------------------------
(* C9 *)

GetByIdAnswers(p) == pc[p] \in {"get_check", "get_mark"} /\ pc'[p] = "done"

\* C9: after a getById call on a coupon whose expires_at is at or before now
\* and whose stored is_expired is false, the stored is_expired of the coupon
\* is true and its expired_at is set.
C9_GetByIdFlagsExpired ==
    [][\A p \in Clients :
          (GetByIdAnswers(p) /\ ctx[p].unflagged /\ HasCoupon(coupons', ctx[p].id))
          => /\ CouponAt(coupons', ctx[p].id).is_expired
             /\ CouponAt(coupons', ctx[p].id).expired_at # NoTime]_vars

----------------------------------------------------------------------------
(* C10 *)

\* C10 as stated: every successful update call that supplies a duration
\* leaves the stored is_expired false, whether or not the supplied text
\* equals the stored duration.
C10_UpdateWithDurationResetsFlag ==
    [][\A p \in Clients :
          (UpdateWriteBy(p) /\ HasCoupon(coupons, ctx[p].id)
           /\ ctx[p].body.duration # NoText)
          => ~CouponAt(coupons', ctx[p].id).is_expired]_vars

\* C10 as amended: every successful update call that supplies a duration
\* whose text differs from the duration the call read from the store leaves
\* the stored is_expired false, whatever is_expired was before the call.
C10_UpdateWithNewDurationResetsFlag ==
    [][\A p \in Clients :
          (UpdateWriteBy(p) /\ HasCoupon(coupons, ctx[p].id)
           /\ ctx[p].body.duration # NoText
           /\ ctx[p].body.duration # ctx[p].existing.duration)
          => ~CouponAt(coupons', ctx[p].id).is_expired]_vars

\* An update with a new duration has answered for a coupon that was flagged
\* expired when the update wrote, and the stored flag is false.
C10_Witness ==
    \E p \in Clients :
        /\ Answered(p, "update")
        /\ resp[p].rows # <<>>
        /\ ctx[p].existing.is_expired
        /\ ctx[p].body.duration # NoText
        /\ ctx[p].body.duration # ctx[p].existing.duration
        /\ HasCoupon(coupons, ctx[p].id)
        /\ ~CouponAt(coupons, ctx[p].id).is_expired
        /\ CouponAt(coupons, ctx[p].id).expired_at # NoTime


----------------------------------------------------------------------------
(* C11 *)

\* The delete scenarios: both clients create coupons, with or without an
\* image, and delete them; the asset store may fail to remove an image.
NextDelete ==
    \/ \E p \in Clients, body \in CreateBodies, hasFile \in BOOLEAN :
          CreateCoupon(p, body, hasFile)
    \/ \E p \in Clients : CreateCouponInsert(p)
    \/ \E p \in Clients, id \in CouponIds : DeleteCoupon(p, id)
    \/ \E p \in Clients, ok \in BOOLEAN : DeleteCloudinaryImage(p, ok)
    \/ \E p \in Clients : Return(p)

SpecDelete == Init /\ [][NextDelete]_vars

DeleteBy(p) == pc[p] = "idle" /\ pc'[p] # "idle" /\ ctx'[p].op = "delete"
AssetDeleteBy(p) == pc[p] = "delete_image" /\ pc'[p] = "done" /\ ctx[p].op = "delete"

\* C11, the part that does not depend on the order of the two effects: an
\* absent couponId answers 404 with no asset-delete call and no change; an
\* existing coupon is removed; one without an image is answered 200 at once;
\* the asset-delete call of a coupon with an image is for that image, is
\* followed by the answer 200 whether it fails or not (so there is exactly
\* one), and removes no other asset.
DeleteOutcome(p) ==
    /\ (DeleteBy(p) /\ ~HasCoupon(coupons, ctx'[p].id))
       => /\ pc'[p] = "done" /\ resp'[p].status = 404
          /\ coupons' = coupons /\ assets' = assets
    /\ (DeleteBy(p) /\ HasCoupon(coupons, ctx'[p].id))
       => /\ coupons' = DeleteCouponRow(coupons, ctx'[p].id)
          /\ IF CouponAt(coupons, ctx'[p].id).image_public_id = NoImage
             THEN pc'[p] = "done" /\ resp'[p].status = 200
             ELSE /\ pc'[p] = "delete_image"
                  /\ ctx'[p].file = CouponAt(coupons, ctx'[p].id).image_public_id
    /\ AssetDeleteBy(p)
       => /\ resp'[p].status = 200
          /\ resp'[p].rows[1].image_public_id = ctx[p].file
          /\ assets' \subseteq assets
          /\ assets \ assets' \subseteq {ctx[p].file}
          /\ coupons' = coupons

\* C11 as stated: the asset-delete call is made before or together with the
\* removal of the coupon row, i.e. when it is made the row is still stored.
C11_AssetDeleteBeforeRowRemoval ==
    [][\A p \in Clients :
          /\ DeleteOutcome(p)
          /\ AssetDeleteBy(p)
             => \E k \in 1..Len(coupons) :
                   /\ coupons[k].coupon_id = ctx[p].id
                   /\ coupons[k].image_public_id = ctx[p].file]_vars

\* C11 as amended: the asset-delete call is made after the removal of the
\* coupon row, in the same call: the step that removes the row leaves the
\* asset store alone and hands the image to the asset-delete call that
\* follows, and that call leaves the coupon table alone.
C11_AssetDeleteAfterRowRemoval ==
    [][\A p \in Clients :
          /\ DeleteOutcome(p)
          /\ (DeleteBy(p) /\ HasCoupon(coupons, ctx'[p].id))
             => ~HasCoupon(coupons', ctx'[p].id) /\ assets' = assets
          /\ AssetDeleteBy(p) => coupons' = coupons]_vars

\* A delete call answered 200 for a coupon with an image whose asset-delete
\* call failed: the row is gone and the image is still in the store.
C11_Witness ==
    \E p \in Clients :
        /\ pc[p] = "done" /\ resp[p].op = "delete" /\ resp[p].status = 200
        /\ "file" \in DOMAIN ctx[p]
        /\ ctx[p].file \in assets
        /\ ~HasCoupon(coupons, ctx[p].id)

----------------------------------------------------------------------------
(* models/UserProfileModel.ts and controllers/UserProfileController.ts *)

\* A field the request body does not carry, and SQL NULL.
Undefined == "undefined"
Null == "null"

Cities == {"Pune", "Goa"}
MiddleNames == {Undefined, "", "Lee"}

\* userProfileSchema (Joi): the required fields, cityTownVillage standing for
\* all of them, and the optional middleName, which may be empty.
userProfileSchemaValid(body) == body.cityTownVillage # Undefined

ProfileBodies ==
    [cityTownVillage : Cities \cup {Undefined}, middleName : MiddleNames]

ProfileRow(userId, email, phone, body) ==
    [user_id |-> userId, email |-> email, phone_number |-> phone,
     middle_name |-> IF body.middleName \in {Undefined, ""}
                     THEN Null ELSE body.middleName,
     city_town_village |-> body.cityTownVillage]

\* SELECT * FROM users_profiles WHERE user_id = $1
findByUserId(rows, userId) ==
    SelectSeq(rows, LAMBDA r : r.user_id = userId)

\* Faulty variant: the table without UNIQUE(user_id).
InsertProfileNoConstraint(rows, row) == Append(rows, row)

\* INSERT INTO users_profiles against UNIQUE(user_id): the rows after the
\* statement; a violation raises and leaves the table as it was.
InsertProfile(rows, row) ==
    IF findByUserId(rows, row.user_id) # <<>> THEN rows ELSE Append(rows, row)

\* UPDATE users_profiles SET <every field the body carries> WHERE user_id
updateUserProfile(rows, userId, body) ==
    [k \in DOMAIN rows |->
        IF rows[k].user_id # userId THEN rows[k]
        ELSE [rows[k] EXCEPT
                !.city_town_village = body.cityTownVillage,
                !.middle_name = IF body.middleName = Undefined
                                THEN @ ELSE body.middleName]]

\* Faulty variant: the DELETE without its WHERE clause.
DeleteProfileRowsAll(rows, userId) == <<>>

\* DELETE FROM users_profiles WHERE user_id = $1
DeleteProfileRows(rows, userId) ==
    SelectSeq(rows, LAMBDA r : r.user_id # userId)

\* No projection: what getCompleteUserProfile returns for a missing user, and
\* the profile of an answer that carries none.
NoProfile ==
    [id |-> 0, email |-> Null, phone |-> Null, isVerified |-> FALSE,
     middleName |-> Null, cityTownVillage |-> Null]

\* getCompleteUserProfile: users LEFT JOIN users_profiles; null when the
\* user row is missing, null profile fields when the profile row is.
getCompleteUserProfile(userId) ==
    IF findById(userId) = 0 THEN NoProfile
    ELSE LET found == findByUserId(users_profiles, userId) IN
         [id |-> userId, email |-> users[userId].email,
          phone |-> users[userId].phone,
          isVerified |-> users[userId].is_verified,
          middleName |-> IF found = <<>> THEN Null ELSE found[1].middle_name,
          cityTownVillage |-> IF found = <<>> THEN Null
                              ELSE found[1].city_town_village]

ProfileReply(op, status, message, profile) ==
    [op |-> op, status |-> status, message |-> message, profile |-> profile]

ProfileCtx(op, g) ==
    [op |-> op, user_id |-> g.id, email |-> g.email, bearer |-> g.bearer]

\* POST /profile: verifyToken, then saveUserProfile up to its first query.
SaveUserProfile(p, bearer, body) ==
    /\ pc[p] = "idle"
    /\ LET g == verifyToken(bearer)
           op == "saveUserProfile"
       IN  IF g.status # 200
           THEN /\ Finish(p, ProfileReply(op, g.status, g.message, NoProfile))
                /\ ctx' = [ctx EXCEPT ![p] = ProfileCtx(op, g)]
           ELSE IF ~userProfileSchemaValid(body)
           THEN /\ Finish(p, ProfileReply(op, 400, "validation", NoProfile))
                /\ ctx' = [ctx EXCEPT ![p] = ProfileCtx(op, g)]
           ELSE Goto(p, "save_find_user", ProfileCtx(op, g) @@ [body |-> body])
    /\ UNCHANGED <<now, authVars, couponVars, users_profiles>>

\* saveUserProfile: UserModel.findById.
SaveFindUser(p) ==
    /\ pc[p] = "save_find_user"
    /\ IF findById(ctx[p].user_id) = 0
       THEN /\ Finish(p, ProfileReply(ctx[p].op, 404, "User not found", NoProfile))
            /\ UNCHANGED ctx
       ELSE Goto(p, "save_find_profile", ctx[p])
    /\ UNCHANGED <<now, authVars, couponVars, users_profiles>>

\* saveUserProfile: UserProfileModel.findByUserId and the branch on it.
SaveFindProfile(p) ==
    /\ pc[p] = "save_find_profile"
    /\ IF findByUserId(users_profiles, ctx[p].user_id) # <<>>
       THEN Goto(p, "save_update", ctx[p])
       ELSE Goto(p, "save_create_find_user", ctx[p])
    /\ UNCHANGED <<now, authVars, couponVars, users_profiles>>

\* updateUserProfile: the UPDATE; null when it returns no row.
SaveUpdate(p) ==
    /\ pc[p] = "save_update"
    /\ users_profiles' =
          updateUserProfile(users_profiles, ctx[p].user_id, ctx[p].body)
    /\ IF findByUserId(users_profiles, ctx[p].user_id) = <<>>
       THEN /\ Finish(p, ProfileReply(ctx[p].op, 500, "Failed to update profile", NoProfile))
            /\ UNCHANGED ctx
       ELSE Goto(p, "save_read", ctx[p])
    /\ UNCHANGED <<now, authVars, couponVars>>

\* createUserProfile: UserModel.findById, for the email and phone to copy.
SaveCreateFindUser(p) ==
    /\ pc[p] = "save_create_find_user"
    /\ IF findById(ctx[p].user_id) = 0
       THEN /\ Finish(p, ProfileReply(ctx[p].op, 500, "Failed to create profile", NoProfile))
            /\ UNCHANGED ctx
       ELSE Goto(p, "save_insert",
                 ctx[p] @@ [phone |-> users[ctx[p].user_id].phone,
                            user_email |-> users[ctx[p].user_id].email])
    /\ UNCHANGED <<now, authVars, couponVars, users_profiles>>

\* createUserProfile: the INSERT; null when it raises.
SaveInsert(p) ==
    LET row == ProfileRow(ctx[p].user_id, ctx[p].user_email, ctx[p].phone,
                          ctx[p].body)
    IN
    /\ pc[p] = "save_insert"
    /\ users_profiles' = InsertProfile(users_profiles, row)
    /\ IF users_profiles' = users_profiles
       THEN /\ Finish(p, ProfileReply(ctx[p].op, 500, "Failed to create profile", NoProfile))
            /\ UNCHANGED ctx
       ELSE Goto(p, "save_read", ctx[p])
    /\ UNCHANGED <<now, authVars, couponVars>>

\* saveUserProfile: getCompleteUserProfile and the answer.
SaveRead(p) ==
    /\ pc[p] = "save_read"
    /\ Finish(p, ProfileReply(ctx[p].op, 200, "Profile saved successfully",
                              getCompleteUserProfile(ctx[p].user_id)))
    /\ UNCHANGED <<now, authVars, couponVars, users_profiles, ctx>>

\* GET /profile: verifyToken; the handler starts with its query.
GetUserProfile(p, bearer) ==
    /\ pc[p] = "idle"
    /\ LET g == verifyToken(bearer)
           op == "getUserProfile"
       IN  IF g.status # 200
           THEN /\ Finish(p, ProfileReply(op, g.status, g.message, NoProfile))
                /\ ctx' = [ctx EXCEPT ![p] = ProfileCtx(op, g)]
           ELSE Goto(p, "profile_read", ProfileCtx(op, g))
    /\ UNCHANGED <<now, authVars, couponVars, users_profiles>>

\* getUserProfile: getCompleteUserProfile and the answer.
GetUserProfileRead(p) ==
    LET complete == getCompleteUserProfile(ctx[p].user_id) IN
    /\ pc[p] = "profile_read"
    /\ IF complete = NoProfile
       THEN Finish(p, ProfileReply(ctx[p].op, 404, "Profile not found", NoProfile))
       ELSE Finish(p, ProfileReply(ctx[p].op, 200, "", complete))
    /\ UNCHANGED <<now, authVars, couponVars, users_profiles, ctx>>

\* DELETE /profile: verifyToken; the handler starts with its query.
DeleteUserProfile(p, bearer) ==
    /\ pc[p] = "idle"
    /\ LET g == verifyToken(bearer)
           op == "deleteUserProfile"
       IN  IF g.status # 200
           THEN /\ Finish(p, ProfileReply(op, g.status, g.message, NoProfile))
                /\ ctx' = [ctx EXCEPT ![p] = ProfileCtx(op, g)]
           ELSE Goto(p, "profile_delete", ProfileCtx(op, g))
    /\ UNCHANGED <<now, authVars, couponVars, users_profiles>>

\* deleteUserProfile: the DELETE and the answer.
DeleteUserProfileRows(p) ==
    /\ pc[p] = "profile_delete"
    /\ users_profiles' = DeleteProfileRows(users_profiles, ctx[p].user_id)
    /\ IF users_profiles' = users_profiles
       THEN Finish(p, ProfileReply(ctx[p].op, 404,
                                   "Profile not found or already deleted", NoProfile))
       ELSE Finish(p, ProfileReply(ctx[p].op, 200,
                                   "Profile deleted successfully", NoProfile))
    /\ UNCHANGED <<now, authVars, couponVars, ctx>>

\* The steps of a save call after its first.
SaveSteps(p) ==
    \/ SaveFindUser(p)
    \/ SaveFindProfile(p)
    \/ SaveUpdate(p)
    \/ SaveCreateFindUser(p)
    \/ SaveInsert(p)
    \/ SaveRead(p)

\* The profile scenarios: the account signs up, then its profile is saved
\* by concurrent requests.
NextProfile ==
    \/ \E body \in AuthSignupBodies : SignupFindByEmail(Writer, body)
    \/ SignupFindByPhone(Writer)
    \/ SignupCreateUser(Writer)
    \/ \E p \in Clients, bearer \in Bearers, body \in ProfileBodies :
          SaveUserProfile(p, bearer, body)
    \/ \E p \in Clients : SaveSteps(p)
    \/ \E p \in Clients : Return(p)

SpecProfile == Init /\ [][NextProfile]_vars

----------------------------------------------------------------------------
(* C12 *)

ProfilesOf(rows, userId) == Len(findByUserId(rows, userId))

\* The values a save call with this body leaves in a row that held `old`.
SavedValues(old, body) ==
    /\ old.city_town_village = body.cityTownVillage
    /\ body.middleName # Undefined
       => old.middle_name = IF body.middleName = "" /\ old.middle_name = Null
                            THEN Null ELSE body.middleName

\* What the steps of a save call do to the table: the call that finds no
\* row goes on to create it and the call that finds one goes on to update
\* it; the UPDATE leaves the user's one row holding the values of its call;
\* the INSERT adds the row when the user has none and fails otherwise; no
\* other step of a save call touches the table, and no row goes away.
SaveOutcome(p) ==
    LET u == ctx[p].user_id
        mine == findByUserId(users_profiles', u)
    IN
    /\ (pc[p] = "save_find_profile" /\ pc'[p] # pc[p])
       => pc'[p] = IF ProfilesOf(users_profiles, u) > 0
                   THEN "save_update" ELSE "save_create_find_user"
    /\ (pc[p] = "save_update" /\ pc'[p] # pc[p])
       => /\ Len(users_profiles') = Len(users_profiles)
          /\ ProfilesOf(users_profiles, u) = 1
             => /\ Len(mine) = 1
                /\ SavedValues(mine[1], ctx[p].body)
                /\ pc'[p] = "save_read"
    /\ (pc[p] = "save_insert" /\ pc'[p] # pc[p])
       => IF ProfilesOf(users_profiles, u) = 0
          THEN /\ Len(users_profiles') = Len(users_profiles) + 1
               /\ Len(mine) = 1
               /\ SavedValues(mine[1], ctx[p].body)
               /\ pc'[p] = "save_read"
          ELSE /\ users_profiles' = users_profiles
               /\ pc'[p] = "done" /\ resp'[p].status = 500
    /\ (pc[p] = "save_read" /\ pc'[p] # pc[p])
       => /\ resp'[p].status = 200
          /\ resp'[p].profile = getCompleteUserProfile(u)

\* C12: whatever the interleaving of save calls, a user has at most one
\* profile row; only the UPDATE or the INSERT of a save call changes the
\* table, each leaves the user's single row holding the values of its call
\* (so after two sequential saves with different cities the row holds the
\* second city), the save that finds no row creates it and every save that
\* finds it updates it.
C12_SavesKeepOneProfileRow ==
    /\ [](\A u \in UserIds : ProfilesOf(users_profiles, u) <= 1)
    /\ [][/\ \A p \in Clients : SaveOutcome(p)
          /\ users_profiles' # users_profiles
             => \E p \in Clients :
                   /\ pc[p] \in {"save_update", "save_insert"}
                   /\ pc'[p] = "save_read"
          /\ Len(users_profiles') >= Len(users_profiles)]_vars

\* Two saves of one user with different cities have both been answered 200;
\* the one answered second updated the row the first created: the user's
\* single row holds its city, and the first call's answer shows the other.
C12_Witness ==
    \E p, q \in Clients :
        /\ pc[p] = "done" /\ pc[q] = "done"
        /\ resp[p].op = "saveUserProfile" /\ resp[p].status = 200
        /\ resp[q].op = "saveUserProfile" /\ resp[q].status = 200
        /\ ctx[p].user_id = ctx[q].user_id
        /\ resp[p].profile.cityTownVillage = "Pune"
        /\ resp[q].profile.cityTownVillage = "Goa"
        /\ ctx[p].body.cityTownVillage = "Pune"
        /\ ctx[q].body.cityTownVillage = "Goa"
        /\ ProfilesOf(users_profiles, ctx[p].user_id) = 1
        /\ findByUserId(users_profiles, ctx[p].user_id)[1].city_town_village = "Goa"

----------------------------------------------------------------------------
(* C13 *)

\* Duration texts: an optional stray character, an hours part, blanks, a
\* minutes part; the same parts with the minutes first; a text with no
\* number at all.  "2hrs 30min" and "45min" are among them.
HourParts ==
    {<<>>,
     <<"2", "h", "r", "s">>,
     <<"2", "H", "r">>,
     <<"2", " ", "h", "r", "s">>}
MinuteParts ==
    {<<>>,
     <<"3", "0", "m", "i", "n">>,
     <<"4", "5", "m", "i", "n">>,
     <<"3", "0", "M", "I", "N", "S">>,
     <<"3", "0", "m", "i">>}
Gaps == {<<>>, <<" ">>}
Strays == {<<>>, <<"x">>}

DurationTexts ==
    {x \o h \o g \o m : x \in Strays, h \in HourParts, g \in Gaps, m \in MinuteParts}
    \cup {m \o g \o h : h \in HourParts, g \in Gaps, m \in MinuteParts}
    \cup {DurationSoon}

DurationBodies ==
    [brandName : {"Acme"}, couponId : CouponIds, audience : {"all"},
     duration : DurationTexts]

\* Coupons created with these durations at several clock values, and deleted.
NextDuration ==
    \/ \E body \in DurationBodies : CreateCoupon(Writer, body, FALSE)
    \/ CreateCouponInsert(Writer)
    \/ \E id \in CouponIds : DeleteCoupon(Writer, id)
    \/ Return(Writer)
    \/ TickCoupon(SweepIntervalSeconds + 1)

SpecDuration == Init /\ [][NextDuration]_vars

\* <m>min with an optional trailing s, read from i: the end of it, 0 when
\* the text does not go on that way.
MinsShapeEnd(s, i) ==
    LET j == DigitsEnd(s, i) IN
    IF j > i /\ CharAt(s, j) = "m" /\ CharAt(s, j + 1) = "i" /\ CharAt(s, j + 2) = "n"
    THEN (IF CharAt(s, j + 3) = "s" THEN j + 4 ELSE j + 3)
    ELSE 0

\* <h>hr with an optional trailing s, read from i.
HrsShapeEnd(s, i) ==
    LET j == DigitsEnd(s, i) IN
    IF j > i /\ CharAt(s, j) = "h" /\ CharAt(s, j + 1) = "r"
    THEN (IF CharAt(s, j + 2) = "s" THEN j + 3 ELSE j + 2)
    ELSE 0

\* The minutes the three shapes stand for, the whole text having the shape
\* (letters in either case, any blanks between the two parts); 0 for a text
\* of no shape.
ShapeMinutes(s) ==
    LET end == Len(s) + 1
        h == HrsShapeEnd(s, 1)
        k == SpacesEnd(s, h)
        number(i) == parseInt(s, i, DigitsEnd(s, i))
    IN  IF h # 0 /\ MinsShapeEnd(s, k) = end THEN number(1) * 60 + number(k)
        ELSE IF h = end THEN number(1) * 60
        ELSE IF MinsShapeEnd(s, 1) = end THEN number(1)
        ELSE 0

CreateBy(p) == pc[p] = "idle" /\ pc'[p] = "create_insert"

\* C13: the expiration date a create call computes at T is T plus the
\* minutes its duration text stands for when the text has one of the three
\* shapes, and T for every other text.
C13_ExpirationFollowsShape ==
    [][\A p \in Clients :
          CreateBy(p)
          => ctx'[p].expiresAt
                = now + ShapeMinutes(ctx'[p].body.duration) * 60]_vars

----------------------------------------------------------------------------
(* C14 *)

VerifiedProfileBodies == {b \in ProfileBodies : b.middleName = Undefined}

\* Every operation of the auth router on one account: one client signs up,
\* logs in, has codes issued and verifies them while the other saves, reads
\* and deletes the profile.
NextVerified ==
    \/ \E body \in AuthSignupBodies : SignupFindByEmail(Writer, body)
    \/ SignupFindByPhone(Writer)
    \/ SignupCreateUser(Writer)
    \/ \E body \in AuthLoginBodies : Login(Writer, body)
    \/ \E bearer \in GuardBearers, mode \in AuthModes, otp \in Codes :
            SelectVerificationMode(Writer, bearer, mode.emailcheck,
                                   mode.phonecheck, otp)
    \/ \E bearer \in GuardBearers, otp \in Codes : ResendOTP(Writer, bearer, otp)
    \/ StoreOTPDelete(Writer)
    \/ StoreOTPInsert(Writer)
    \/ \E sent \in BOOLEAN : SendOTPEmail(Writer, sent)
    \/ \E bearer \in GuardBearers, code \in Codes \cup {MalformedCode} :
            VerifyOTPSelect(Writer, bearer, code)
    \/ VerifyOTPDelete(Writer)
    \/ VerifyOTPUpdate(Writer)
    \/ \E bearer \in GuardBearers, body \in VerifiedProfileBodies :
            SaveUserProfile(Reader, bearer, body)
    \/ SaveSteps(Reader)
    \/ \E bearer \in GuardBearers : GetUserProfile(Reader, bearer)
    \/ GetUserProfileRead(Reader)
    \/ \E bearer \in GuardBearers : DeleteUserProfile(Reader, bearer)
    \/ DeleteUserProfileRows(Reader)
    \/ \E p \in Clients : Return(p)

SpecVerified == Init /\ [][NextVerified]_vars

\* The step in which a verifyOTP call for user u, having found its code in
\* the ledger, answers 200.
VerifyOTPSucceedsFor(u) ==
    \E p \in Clients :
        /\ pc[p] = "verify_update" /\ ctx[p].user_id = u
        /\ pc'[p] = "done"
        /\ resp'[p].op = "verifyOTP" /\ resp'[p].status = 200

\* C14: a user row starts with is_verified false, in the step of a signup
\* that creates it; is_verified becomes true only in the step of a verifyOTP
\* call for that user that succeeds; no step of any operation removes a user
\* or sets is_verified back to false.
C14_VerifiedOnlyBySuccessfulVerifyOTP ==
    [][/\ DOMAIN users \subseteq DOMAIN users'
       /\ \A u \in DOMAIN users' :
             IF u \notin DOMAIN users
             THEN /\ ~users'[u].is_verified
                  /\ \E p \in Clients : pc[p] = "signup_create" /\ pc'[p] = "done"
             ELSE /\ users[u].is_verified => users'[u].is_verified
                  /\ (~users[u].is_verified /\ users'[u].is_verified)
                     => VerifyOTPSucceedsFor(u)]_vars

\* A verified user whose profile has been saved and then deleted: the
\* profile operations have run on a verified account and left it verified.
C14_Witness ==
    /\ \E u \in DOMAIN users : users[u].is_verified /\ u \in otpSucceeded
    /\ pc[Reader] = "done"
    /\ resp[Reader].op = "deleteUserProfile" /\ resp[Reader].status = 200

----------------------------------------------------------------------------
(* C15 *)

\* The ledger `rows` holds a row of (u, "email") with code c that has not
\* expired at time `at`.
LiveCodeIn(rows, at, u, c) ==
    \E k \in 1..Len(rows) :
        /\ rows[k].user_id = u /\ rows[k].type = "email"
        /\ rows[k].otp = c
        /\ rows[k].expires_at > at

LiveCode(u, c) == LiveCodeIn(otp_codes, now, u, c)

\* The first step of a verifyOTP call that got past the guard with a
\* well-formed code: the look-up in the ledger.
VerifyLookupBy(p) ==
    /\ pc[p] = "idle" /\ pc'[p] # "idle"
    /\ ctx'[p].op = "verifyOTP"
    /\ ctx'[p].user_id # 0
    /\ ctx'[p].otp # MalformedCode

\* C15: the look-up of verifyOTP for user u with code c goes on to success
\* exactly when the ledger holds an unexpired row of (u, "email") with code
\* c, and otherwise answers 205, the incorrect-code outcome, which is not
\* the 401 of the guard; a call that goes on deletes the rows of
\* (u, "email"), then sets u.is_verified and answers 200; no verifyOTP call
\* answers 200 any other way.
C15_VerifyOTPSucceedsIffLiveCode ==
    [][\A p \in Clients :
          /\ VerifyLookupBy(p)
             => IF LiveCode(ctx'[p].user_id, ctx'[p].otp)
                THEN pc'[p] = "verify_delete"
                ELSE /\ pc'[p] = "done"
                     /\ resp'[p].status = 205
                     /\ resp'[p].message = "Please enter correct OTP"
          /\ (pc[p] = "verify_delete" /\ pc'[p] # pc[p])
             => /\ pc'[p] = "verify_update"
                /\ \A k \in 1..Len(otp_codes') :
                      ~(/\ otp_codes'[k].user_id = ctx[p].user_id
                        /\ otp_codes'[k].type = "email")
          /\ (pc[p] = "verify_update" /\ pc'[p] # pc[p])
             => /\ pc'[p] = "done"
                /\ resp'[p].status = 200
                /\ users'[ctx[p].user_id].is_verified
          /\ (pc[p] # "done" /\ pc'[p] = "done" /\ resp'[p].op = "verifyOTP"
              /\ resp'[p].status = 200)
             => pc[p] = "verify_update"]_vars

\* A verifyOTP call answered 205 for a code the ledger still holds, expired.
C15_Witness ==
    \E p \in Clients :
        /\ pc[p] = "done" /\ resp[p].op = "verifyOTP" /\ resp[p].status = 205
        /\ \E k \in 1..Len(otp_codes) :
              /\ otp_codes[k].user_id = ctx[p].user_id
              /\ otp_codes[k].type = "email"
              /\ otp_codes[k].otp = ctx[p].otp
              /\ otp_codes[k].expires_at <= now
        /\ ~LiveCode(ctx[p].user_id, ctx[p].otp)

----------------------------------------------------------------------------
(* C16 *)

\* The storage step of an issuance completes: the INSERT of storeOTP.
StoredBy(p) == pc[p] = "otp_insert" /\ pc'[p] = "otp_send"

\* C16: when the storage step of an issuance for user u completes, the
\* ledger holds no unexpired row of (u, "email") with a code other than the
\* new one: verifyOTP accepts no earlier code.
C16_OnlyNewCodeAcceptedAfterStorage ==
    [][\A p \in Clients :
          StoredBy(p)
          => \A c \in Codes \ {ctx[p].otp} :
                ~LiveCodeIn(otp_codes', now', ctx[p].user_id, c)]_vars

----------------------------------------------------------------------------
(* C17 *)

\* The dispatch step of an issuance fails.
DispatchFailsFor(p) ==
    pc[p] = "otp_send" /\ pc'[p] = "done" /\ resp'[p].status # 200

\* C17: an issuance whose email dispatch fails answers 500 and leaves the
\* ledger as it is, so every code verifyOTP accepted before the step it
\* accepts after it; a row leaves the ledger only in the DELETE of a later
\* issuance or of a verification that accepted a code, and otherwise stops
\* being accepted only when its expiry passes.
C17_FailedDispatchKeepsStoredCode ==
    [][/\ \A p \in Clients :
             DispatchFailsFor(p)
             => /\ resp'[p].status = 500
                /\ resp'[p].op \in {"selectVerificationMode", "resendOTP"}
                /\ otp_codes' = otp_codes
                /\ \A c \in Codes :
                      LiveCode(ctx[p].user_id, c)
                      => LiveCodeIn(otp_codes', now', ctx[p].user_id, c)
       /\ (\E k \in 1..Len(otp_codes) :
              \A j \in 1..Len(otp_codes') : otp_codes'[j] # otp_codes[k])
          => \E q \in Clients :
                /\ pc[q] \in {"otp_delete", "verify_delete"}
                /\ pc'[q] # pc[q]]_vars

\* An issuance has answered 500 on a failed dispatch, its code is still in
\* the ledger, unexpired, and a verifyOTP call has just accepted that code.
C17_Witness ==
    \E p, q \in Clients :
        /\ pc[p] = "done" /\ resp[p].status = 500
        /\ resp[p].op \in {"selectVerificationMode", "resendOTP"}
        /\ LiveCode(ctx[p].user_id, ctx[p].otp)
        /\ pc[q] = "verify_delete"
        /\ ctx[q].user_id = ctx[p].user_id /\ ctx[q].otp = ctx[p].otp

----------------------------------------------------------------------------
(* C18 *)

\* The account signs up and selects its verification mode, with every
\* combination of the two flags, from both clients.
NextMode ==
    \/ \E body \in AuthSignupBodies : SignupFindByEmail(Writer, body)
    \/ SignupFindByPhone(Writer)
    \/ SignupCreateUser(Writer)
    \/ \E p \in Clients, bearer \in Bearers, emailcheck \in BOOLEAN,
          phonecheck \in BOOLEAN, otp \in Codes :
            SelectVerificationMode(p, bearer, emailcheck, phonecheck, otp)
    \/ \E p \in Clients : StoreOTPDelete(p)
    \/ \E p \in Clients : StoreOTPInsert(p)
    \/ \E p \in Clients, sent \in BOOLEAN : SendOTPEmail(p, sent)
    \/ \E p \in Clients : Return(p)

SpecMode == Init /\ [][NextMode]_vars

\* The first step of a selectVerificationMode call that got past the guard.
ModeSelectedBy(p) ==
    /\ pc[p] = "idle" /\ pc'[p] # "idle"
    /\ ctx'[p].op = "selectVerificationMode"
    /\ ctx'[p].user_id # 0

\* C18: a selectVerificationMode call with neither flag true answers 400 and
\* leaves the ledger unchanged; a call with both flags true issues no code;
\* a call goes on to issue a code only with exactly one flag true.
C18_ProceedsOnlyWithExactlyOneMode ==
    [][\A p \in Clients :
          ModeSelectedBy(p)
          => /\ (~ctx'[p].emailcheck /\ ~ctx'[p].phonecheck)
                => /\ pc'[p] = "done" /\ resp'[p].status = 400
                   /\ otp_codes' = otp_codes
             /\ (ctx'[p].emailcheck /\ ctx'[p].phonecheck)
                => pc'[p] # "otp_delete"
             /\ pc'[p] = "otp_delete"
                => ctx'[p].emailcheck # ctx'[p].phonecheck]_vars

----------------------------------------------------------------------------
(* C19 *)

\* The operations routed behind verifyToken.
GuardedOps ==
    {"selectVerificationMode", "verifyOTP", "resendOTP",
     "saveUserProfile", "getUserProfile", "deleteUserProfile"}

\* The first step of a call to an operation behind the guard.
GuardedCallBy(p) ==
    pc[p] = "idle" /\ pc'[p] # "idle" /\ ctx'[p].op \in GuardedOps

\* The call is answered by the guard: the handler has not run and the
\* stores are as they were.
AnsweredByGuard(p, status) ==
    /\ pc'[p] = "done"
    /\ resp'[p].status = status
    /\ resp'[p].message
          \in {"No token provided", "Invalid or expired token", "User not found"}
    /\ UNCHANGED <<users, otp_codes, users_profiles, coupons, assets>>

\* C19: a call behind the guard without a token, or with a token that
\* fails verification, is answered 401 by the guard; with a valid token
\* whose user has no row it is answered 404 by the guard; in both cases no
\* store changes.  With a valid token whose user exists the handler runs,
\* and the identity it runs with is the id and email of that user's row.
C19_GuardAdmitsOnlyValidTokenOfExistingUser ==
    [][\A p \in Clients :
          GuardedCallBy(p)
          => LET b == ctx'[p].bearer IN
             IF b.kind # "signed" THEN AnsweredByGuard(p, 401)
             ELSE IF b.id \notin DOMAIN users THEN AnsweredByGuard(p, 404)
             ELSE /\ ctx'[p].user_id = b.id
                  /\ ctx'[p].email = users[b.id].email
                  /\ ~(pc'[p] = "done" /\ resp'[p].status \in {401, 404})]_vars

\* One call was answered 404 for the token of a vanished user while an
\* account exists, and the handler of another call is running for that
\* account.
C19_Witness ==
    \E p, q \in Clients :
        /\ pc[p] = "done" /\ resp[p].status = 404
        /\ ctx[p].bearer = VanishedBearer
        /\ pc[q] \notin {"idle", "done"}
        /\ ctx[q].op \in GuardedOps
        /\ ctx[q].user_id \in DOMAIN users

----------------------------------------------------------------------------
(* middlewares/authMiddleware.ts checkVerification, AuthController.getProfile *)

\* checkVerification for req.user.id: the status of its answer, the status
\* field it puts in the body of its 403, or next().
checkVerification(userId) ==
    IF findById(userId) = 0
    THEN [status |-> 404, message |-> "User not found", body_status |-> 0]
    ELSE IF ~users[userId].is_verified
    THEN [status |-> 403, message |-> "Account not verified", body_status |-> 203]
    ELSE [status |-> 200, message |-> "next", body_status |-> 0]

VerificationReply(op, v) ==
    [op |-> op, status |-> v.status, message |-> v.message,
     body_status |-> v.body_status]

\* GET /profile as authRoutes.ts declares it for verified users (the
\* declaration is commented out there): verifyToken.
GetProfile(p, bearer) ==
    /\ pc[p] = "idle"
    /\ LET g == verifyToken(bearer)
           op == "getProfile"
       IN  IF g.status # 200
           THEN /\ Finish(p, Reply(op, g.status, g.message, NoToken))
                /\ ctx' = [ctx EXCEPT ![p] = GuardCtx(op, g)]
           ELSE Goto(p, "check_verification", GuardCtx(op, g))
    /\ UNCHANGED <<now, authVars, couponVars, users_profiles>>

\* checkVerification: its findById and its answer, or next().
CheckVerification(p) ==
    LET v == checkVerification(ctx[p].user_id) IN
    /\ pc[p] = "check_verification"
    /\ IF v.status # 200
       THEN Finish(p, VerificationReply(ctx[p].op, v)) /\ UNCHANGED ctx
       ELSE Goto(p, "get_profile", ctx[p])
    /\ UNCHANGED <<now, authVars, couponVars, users_profiles>>

\* getProfile: its findById and its answer.
GetProfileRead(p) ==
    /\ pc[p] = "get_profile"
    /\ IF findById(ctx[p].user_id) = 0
       THEN Finish(p, Reply(ctx[p].op, 404, "User not found", NoToken))
       ELSE Finish(p, [op |-> ctx[p].op, status |-> 200, message |-> "",
                       user |-> UserView(ctx[p].user_id)])
    /\ UNCHANGED <<now, authVars, couponVars, users_profiles, ctx>>

\* One client signs up and verifies its account with the code of a resend
\* while the other asks for the profile behind checkVerification.
NextRequire ==
    \/ \E body \in AuthSignupBodies : SignupFindByEmail(Writer, body)
    \/ SignupFindByPhone(Writer)
    \/ SignupCreateUser(Writer)
    \/ \E bearer \in Bearers, otp \in Codes : ResendOTP(Writer, bearer, otp)
    \/ StoreOTPDelete(Writer)
    \/ StoreOTPInsert(Writer)
    \/ \E sent \in BOOLEAN : SendOTPEmail(Writer, sent)
    \/ \E bearer \in Bearers, code \in Codes : VerifyOTPSelect(Writer, bearer, code)
    \/ VerifyOTPDelete(Writer)
    \/ VerifyOTPUpdate(Writer)
    \/ \E bearer \in GuardBearers : GetProfile(Reader, bearer)
    \/ CheckVerification(Reader)
    \/ GetProfileRead(Reader)
    \/ \E p \in Clients : Return(p)

SpecRequire == Init /\ [][NextRequire]_vars

----------------------------------------------------------------------------
(* C20 *)

\* C20: checkVerification lets the request through to its handler exactly
\* when the user it loads has is_verified true; when is_verified is false
\* it answers with a status code that is neither 401 nor 403.
C20_RequireVerifiedHasItsOwnStatus ==
    [][\A p \in Clients :
          (pc[p] = "check_verification" /\ pc'[p] # pc[p])
          => IF users[ctx[p].user_id].is_verified
             THEN pc'[p] = "get_profile"
             ELSE /\ pc'[p] = "done"
                  /\ resp'[p].status \notin {401, 403}]_vars

----------------------------------------------------------------------------
(* C21 *)

\* Two accounts and their profiles.
LifeSignupBodies ==
    {b \in SignupBodies :
        /\ b.password = GoodPassword
        /\ \/ b.useremail = "ann@x.io" /\ b.userphone = "555-0101"
           \/ b.useremail = "bob@x.io" /\ b.userphone = "555-0102"}

LifeProfileBodies ==
    {b \in ProfileBodies :
        b.cityTownVillage # Undefined /\ b.middleName = Undefined}

\* The life of a profile: one client signs the accounts up and has a code
\* issued, the other saves, reads and deletes their profiles.
NextLife ==
    \/ \E body \in LifeSignupBodies : SignupFindByEmail(Writer, body)
    \/ SignupFindByPhone(Writer)
    \/ SignupCreateUser(Writer)
    \/ \E bearer \in Bearers : ResendOTP(Writer, bearer, "111111")
    \/ StoreOTPDelete(Writer)
    \/ StoreOTPInsert(Writer)
    \/ SendOTPEmail(Writer, TRUE)
    \/ \E bearer \in Bearers, body \in LifeProfileBodies :
            SaveUserProfile(Reader, bearer, body)
    \/ SaveSteps(Reader)
    \/ \E bearer \in Bearers : GetUserProfile(Reader, bearer)
    \/ GetUserProfileRead(Reader)
    \/ \E bearer \in Bearers : DeleteUserProfile(Reader, bearer)
    \/ DeleteUserProfileRows(Reader)
    \/ \E p \in Clients : Return(p)

SpecLife == Init /\ [][NextLife]_vars

\* The step in which a getUserProfile call reads the projection and answers.
ProfileReadBy(p) == pc[p] = "profile_read" /\ pc'[p] = "done"

\* C21: a profile get by an authenticated user answers 404 exactly when the
\* user has no profile row (never saved, or deleted since) and answers 200
\* with the joined projection exactly when the row exists.
C21_GetFailsNotFoundWithoutProfileRow ==
    [][\A p \in Clients :
          ProfileReadBy(p)
          => IF findByUserId(users_profiles, ctx[p].user_id) = <<>>
             THEN resp'[p].status = 404
             ELSE /\ resp'[p].status = 200
                  /\ resp'[p].profile
                        = getCompleteUserProfile(ctx[p].user_id)]_vars

----------------------------------------------------------------------------
(* C22 *)

\* The step in which a deleteUserProfile call runs its DELETE and answers.
ProfileDeleteBy(p) == pc[p] = "profile_delete" /\ pc'[p] = "done"

\* The step in which a deleteUserProfile call passes or fails the guard.
ProfileDeleteCallBy(p) ==
    /\ pc[p] = "idle" /\ pc'[p] # "idle"
    /\ ctx'[p].op = "deleteUserProfile"

\* C22: a profile delete removes the caller's profile row and nothing else:
\* the users table, the OTP ledger and every other user's profile row stay
\* as they were and the call answers 200; when the caller has no profile
\* row it answers 404 and changes nothing.
C22_DeleteRemovesOnlyCallersProfile ==
    [][\A p \in Clients :
          /\ ProfileDeleteCallBy(p)
             => /\ users' = users /\ otp_codes' = otp_codes
                /\ users_profiles' = users_profiles
          /\ ProfileDeleteBy(p)
             => /\ users' = users /\ otp_codes' = otp_codes
                /\ findByUserId(users_profiles', ctx[p].user_id) = <<>>
                /\ SelectSeq(users_profiles',
                             LAMBDA r : r.user_id # ctx[p].user_id)
                      = SelectSeq(users_profiles,
                                  LAMBDA r : r.user_id # ctx[p].user_id)
                /\ IF findByUserId(users_profiles, ctx[p].user_id) # <<>>
                   THEN resp'[p].status = 200
                   ELSE /\ resp'[p].status = 404
                        /\ users_profiles' = users_profiles]_vars

\* A delete answered 200 while the other account's profile row and a stored
\* code are still there.
C22_Witness ==
    \E p \in Clients :
        /\ pc[p] = "done" /\ resp[p].op = "deleteUserProfile"
        /\ resp[p].status = 200
        /\ findByUserId(users_profiles, ctx[p].user_id) = <<>>
        /\ \E u \in DOMAIN users :
              u # ctx[p].user_id /\ findByUserId(users_profiles, u) # <<>>
        /\ otp_codes # <<>>

----------------------------------------------------------------------------
(* C23 *)

\* Create requests for one coupon id: complete, or with one required field
\* missing.
CreateCallBodies ==
    {b \in [brandName : {"Acme", "Zest", ""}, couponId : CouponIds \cup {""},
            audience : {"all", ""}, duration : {Duration1min, NoText}] :
        LET missing ==
                Cardinality({f \in {"brandName", "couponId", "audience"} : b[f] = ""})
                    + (IF b.duration = NoText THEN 1 ELSE 0)
        IN  missing = 0 \/ (missing = 1 /\ b.brandName # "Zest")}

\* Bound on the clock of the create scenarios.
MaxCreateTicks == 1

\* The create scenarios: both clients create coupons, with or without an
\* image; the asset store may fail to remove an image.
NextCreate ==
    \/ \E p \in Clients, body \in CreateCallBodies, hasFile \in BOOLEAN :
          CreateCoupon(p, body, hasFile)
    \/ \E p \in Clients : CreateCouponInsert(p)
    \/ \E p \in Clients, ok \in BOOLEAN : DeleteCloudinaryImage(p, ok)
    \/ \E p \in Clients : Return(p)
    \/ /\ now < MaxCreateTicks * (SweepIntervalSeconds + 1)
       /\ TickCoupon(SweepIntervalSeconds + 1)

SpecCreate == Init /\ [][NextCreate]_vars

\* The step in which a create call runs its INSERT.
InsertBy(p) == pc[p] = "create_insert" /\ pc'[p] # "create_insert"

\* The answer a create call has settled on in the next state: sent, or held
\* until the uploaded image is discarded.
CreateAnswer(p) ==
    IF pc'[p] = "delete_image" THEN ctx'[p].pending ELSE resp'[p]

OneRowPerCouponId ==
    \A i, j \in DOMAIN coupons :
        coupons[i].coupon_id = coupons[j].coupon_id => i = j

----------------------------------------------------------------------------
(* C24 *)

\* The create scenarios with a store that may fail the INSERT.
NextCreateFault ==
    \/ NextCreate
    \/ \E p \in Clients : CreateCouponInsertFault(p)

SpecCreateFault == Init /\ [][NextCreateFault]_vars

\* The step in which a create call settles on an answer other than 201:
\* at the validation, or at the INSERT.
CreateFailsBy(p) ==
    /\ \/ pc[p] = "idle" /\ pc'[p] # "idle" /\ ctx'[p].op = "create"
          /\ pc'[p] # "create_insert"
       \/ InsertBy(p)
    /\ CreateAnswer(p).status # 201

\* The step in which the image uploaded with a failed create is discarded.
CreateDiscardBy(p) ==
    pc[p] = "delete_image" /\ pc'[p] = "done" /\ ctx[p].op = "create"

\* C24: a create call that fails (a required field missing, the couponId
\* taken, the store failing) adds no coupon row; when it uploaded an image
\* it goes on to an asset-delete call for exactly that image before it
\* answers, and after that call the image is out of the asset store unless
\* the call failed and left the store as it was.
C24_FailedCreateDiscardsItsUpload ==
    [][\A p \in Clients :
          /\ CreateFailsBy(p)
             => /\ coupons' = coupons
                /\ CreateAnswer(p).status \in {400, 500}
                /\ InsertBy(p) /\ ctx[p].file # NoImage
                   => pc'[p] = "delete_image" /\ ctx'[p].file = ctx[p].file
                /\ assets' # assets
                   => /\ pc'[p] = "delete_image"
                      /\ assets' = assets \cup {ctx'[p].file}
          /\ CreateDiscardBy(p)
             => /\ coupons' = coupons
                /\ resp'[p] = ctx[p].pending
                /\ \/ assets' = assets \ {ctx[p].file}
                   \/ assets' = assets]_vars

\* A create answered "Coupon ID already exists" whose own upload is out of
\* the asset store while the image of the existing coupon is in it.
C24_Witness ==
    \E p \in Clients :
        /\ pc[p] = "done" /\ resp[p].op = "create"
        /\ resp[p].error = "Coupon ID already exists"
        /\ "file" \in DOMAIN ctx[p] /\ ctx[p].file \notin assets
        /\ Len(coupons) = 1
        /\ coupons[1].image_public_id \in assets

----------------------------------------------------------------------------
(* C25 *)

UpdateCallBodies ==
    [brandName : {"", "Zest"}, duration : {NoText, DurationSoon}]

\* The update scenarios: one coupon is created and both clients update it,
\* or an id that is absent, without a file.
NextUpdate ==
    \/ \E body \in CreateBodies : CreateCoupon(Writer, body, FALSE)
    \/ CreateCouponInsert(Writer)
    \/ \E p \in Clients, id \in CouponIds \cup {"C2"}, body \in UpdateCallBodies :
          UpdateCoupon(p, id, body, FALSE)
    \/ \E p \in Clients : UpdateCouponWrite(p)
    \/ \E p \in Clients : Return(p)
    \/ TickCoupon(SweepIntervalSeconds + 1)

SpecUpdate == Init /\ [][NextUpdate]_vars

\* The step in which an update call reads the row.
UpdateReadBy(p) == pc[p] = "idle" /\ pc'[p] # "idle" /\ ctx'[p].op = "update"

\* C25: the UPDATE of an update call sent without a file changes, in the row
\* of its couponId, brand_name and duration only when the request supplies
\* them non-empty, and expires_at and is_expired only when it supplies a
\* duration; coupon_id, the image reference and every other row stay as
\* they were.  An update of an absent couponId answers 404 and adds no row.
C25_UpdateChangesOnlySuppliedFields ==
    [][\A p \in Clients :
          /\ UpdateReadBy(p)
             => /\ coupons' = coupons
                /\ pc'[p] = "done" => resp'[p].status = 404
                /\ pc'[p] # "done" => HasCoupon(coupons, ctx'[p].id)
          /\ UpdateWriteBy(p)
             => /\ Len(coupons') = Len(coupons)
                /\ \A k \in DOMAIN coupons :
                      LET old == coupons[k]
                          new == coupons'[k]
                          body == ctx[p].body
                      IN  IF old.coupon_id # ctx[p].id THEN new = old
                          ELSE /\ new.coupon_id = old.coupon_id
                               /\ new.image_public_id = old.image_public_id
                               /\ new.brand_name
                                    = IF body.brandName # "" THEN body.brandName
                                      ELSE old.brand_name
                               /\ new.duration
                                    = IF body.duration # NoText THEN body.duration
                                      ELSE old.duration
                               /\ body.duration = NoText
                                  => /\ new.expires_at = old.expires_at
                                     /\ new.is_expired = old.is_expired]_vars

----------------------------------------------------------------------------
(* C26 *)

\* The login scenarios: one account signs up and both clients log in, with
\* its email or another, with its password or another.
NextLogin ==
    \/ \E body \in AuthSignupBodies : SignupFindByEmail(Writer, body)
    \/ SignupFindByPhone(Writer)
    \/ SignupCreateUser(Writer)
    \/ \E p \in Clients, body \in LoginBodies : Login(p, body)
    \/ \E p \in Clients : Return(p)

SpecLogin == Init /\ [][NextLogin]_vars

\* Two well-formed login bodies that differ only in the email, the first
\* with an email no account has, the second with the email of an account
\* and a password that is not the account's.
DifferOnlyInRegistration(b1, b2) ==
    /\ loginSchemaValid(b1) /\ loginSchemaValid(b2)
    /\ b1.userpassword = b2.userpassword /\ b1.RememberMe = b2.RememberMe
    /\ findByEmail(b1.useremail) = 0
    /\ findByEmail(b2.useremail) # 0
    /\ ~verifyPassword(b2.userpassword,
                       users[findByEmail(b2.useremail)].password)

LoginBy(p) == pc[p] = "idle" /\ pc'[p] = "done" /\ resp'[p].op = "login"

\* C26: a login with an unknown email and a login with a known email and a
\* wrong password get the same answer, 401 with one message and no token,
\* and a login changes no stored state.
C26_LoginHidesWhetherEmailIsRegistered ==
    /\ [](\A b1, b2 \in LoginBodies :
            DifferOnlyInRegistration(b1, b2)
            => /\ LoginReply(b1) = LoginReply(b2)
               /\ LoginReply(b1).status = 401
               /\ LoginReply(b1).token = NoToken)
    /\ [][\A p \in Clients :
            LoginBy(p)
            => /\ resp'[p] = LoginReply(ctx'[p].body)
               /\ UNCHANGED <<authVars, users_profiles, couponVars>>]_vars

\* Both clients answered, one for an unknown email and one for the email of
\* the account with a wrong password.
C26_Witness ==
    \E p, q \in Clients :
        /\ pc[p] = "done" /\ resp[p].op = "login"
        /\ pc[q] = "done" /\ resp[q].op = "login"
        /\ DifferOnlyInRegistration(ctx[p].body, ctx[q].body)
        /\ resp[p] = resp[q]

----------------------------------------------------------------------------
(* C27 *)
(* Store failures.  Every model function wraps its query in try/catch, logs
   the error and returns null or false; a step below is the handler step of
   the same place with the query raising.  ctx.store_failed records it. *)

\* login with findByEmail's SELECT raising: findByEmail returns null.
LoginStoreFault(p, body) ==
    /\ pc[p] = "idle"
    /\ loginSchemaValid(body)
    /\ Finish(p, Reply("login", 401, "Invalid email or password", NoToken))
    /\ ctx' = [ctx EXCEPT ![p] = [op |-> "login", body |-> body,
                                  store_failed |-> TRUE]]
    /\ UNCHANGED <<couponVars, users_profiles, now, authVars>>

\* verifyToken with findById's SELECT raising: findById returns null.
GuardStoreFault(p, bearer, op) ==
    /\ pc[p] = "idle"
    /\ bearer.kind = "signed"
    /\ Finish(p, ProfileReply(op, 404, "User not found", NoProfile))
    /\ ctx' = [ctx EXCEPT ![p] = [op |-> op, bearer |-> bearer,
                                  store_failed |-> TRUE]]
    /\ UNCHANGED <<couponVars, users_profiles, now, authVars>>

\* verifyOTP (otpUtils) with its DELETE or its UPDATE raising: it returns
\* false and the controller answers as for a wrong code.
VerifyOTPStoreFault(p) ==
    /\ pc[p] \in {"verify_delete", "verify_update"}
    /\ Finish(p, Reply("verifyOTP", 205, "Please enter correct OTP", NoToken))
    /\ ctx' = [ctx EXCEPT ![p] = ctx[p] @@ [store_failed |-> TRUE]]
    /\ UNCHANGED <<couponVars, users_profiles, now, authVars>>

\* getUserProfile with the SELECT of getCompleteUserProfile raising: it
\* returns null.
GetUserProfileStoreFault(p) ==
    /\ pc[p] = "profile_read"
    /\ Finish(p, ProfileReply(ctx[p].op, 404, "Profile not found", NoProfile))
    /\ ctx' = [ctx EXCEPT ![p] = ctx[p] @@ [store_failed |-> TRUE]]
    /\ UNCHANGED <<couponVars, users_profiles, now, authVars>>

\* deleteUserProfile with its DELETE raising: the model function returns
\* false.
DeleteUserProfileStoreFault(p) ==
    /\ pc[p] = "profile_delete"
    /\ Finish(p, ProfileReply(ctx[p].op, 404,
                              "Profile not found or already deleted", NoProfile))
    /\ ctx' = [ctx EXCEPT ![p] = ctx[p] @@ [store_failed |-> TRUE]]
    /\ UNCHANGED <<couponVars, users_profiles, now, authVars>>

\* The auth router over a store that may fail: one client signs up, has a
\* code issued and verifies it, the other logs in and works on the profile.
NextStoreFault ==
    \/ \E body \in AuthSignupBodies : SignupFindByEmail(Writer, body)
    \/ SignupFindByPhone(Writer)
    \/ SignupCreateUser(Writer)
    \/ \E bearer \in Bearers : ResendOTP(Writer, bearer, "111111")
    \/ StoreOTPDelete(Writer)
    \/ StoreOTPInsert(Writer)
    \/ SendOTPEmail(Writer, TRUE)
    \/ \E bearer \in Bearers, code \in Codes : VerifyOTPSelect(Writer, bearer, code)
    \/ VerifyOTPDelete(Writer)
    \/ VerifyOTPUpdate(Writer)
    \/ VerifyOTPStoreFault(Writer)
    \/ \E body \in AuthLoginBodies : Login(Reader, body)
    \/ \E body \in AuthLoginBodies : LoginStoreFault(Reader, body)
    \/ \E bearer \in Bearers, body \in LifeProfileBodies :
            SaveUserProfile(Reader, bearer, body)
    \/ SaveSteps(Reader)
    \/ \E bearer \in Bearers : GetUserProfile(Reader, bearer)
    \/ GetUserProfileRead(Reader)
    \/ GetUserProfileStoreFault(Reader)
    \/ \E bearer \in Bearers : DeleteUserProfile(Reader, bearer)
    \/ DeleteUserProfileRows(Reader)
    \/ DeleteUserProfileStoreFault(Reader)
    \/ \E bearer \in Bearers, op \in {"getUserProfile", "deleteUserProfile"} :
            GuardStoreFault(Reader, bearer, op)
    \/ \E p \in Clients : Return(p)

SpecStoreFault == Init /\ [][NextStoreFault]_vars

\* The step in which a call whose store call failed answers.
AnswersAfterStoreFailure(p) ==
    /\ pc[p] # "done" /\ pc'[p] = "done"
    /\ "store_failed" \in DOMAIN ctx'[p]

\* C27: an operation whose store call fails answers 500, not 401, 404, 205
\* or 200.
C27_StoreFailureEndsInServerError ==
    [][\A p \in Clients :
          AnswersAfterStoreFailure(p) => resp'[p].status = 500]_vars

----------------------------------------------------------------------------
(* C28 *)

\* The step in which a signup call with a well-formed body answers.
SignupAnswersBy(p) ==
    /\ pc[p] # "done" /\ pc'[p] = "done"
    /\ resp'[p].op = "signup"
    /\ signupSchemaValid(ctx'[p].body)

\* C28: a signup with a well-formed body whose email or phone is registered
\* when it answers is answered 205 with no token and adds no user, with the
\* email message when its first lookup finds the email; this includes the
\* signup that passed both lookups and lost the INSERT to a concurrent one.
C28_RegisteredSignupIsConflict ==
    [][\A p \in Clients :
          (SignupAnswersBy(p) /\ Registered(ctx'[p].body))
          => /\ users' = users
             /\ resp'[p].status = 205
             /\ resp'[p].token = NoToken
             /\ (pc[p] = "idle" /\ findByEmail(ctx'[p].body.useremail) # 0)
                => resp'[p].message = "User with this email already exists"]_vars

----------------------------------------------------------------------------
(* C29 *)

\* The retention scenarios with the two cron jobs scheduled fairly: a sweep
\* that has a coupon to flag runs, and so does a cleanup that has a
\* candidate to select or to delete.
SpecCleanupFair ==
    /\ Init /\ [][NextCleanup]_vars
    /\ WF_vars(Sweep) /\ WF_vars(CleanupSelect) /\ WF_vars(CleanupDelete)

\* Coupon id is stored, not flagged, and past its expires_at.
DueForFlag(id) ==
    /\ HasCoupon(coupons, id)
    /\ ~CouponAt(coupons, id).is_expired
    /\ CouponAt(coupons, id).expires_at <= now

\* Coupon id is stored, flagged, and flagged for the retention period or more.
DueForRemoval(id) ==
    /\ HasCoupon(coupons, id)
    /\ CouponAt(coupons, id).is_expired
    /\ CouponAt(coupons, id).expired_at # NoTime
    /\ CouponAt(coupons, id).expired_at <= now - RetentionSeconds

\* Coupon id is gone, or an update gave it an expires_at in the future.
GoneOrRearmed(id) ==
    \/ ~HasCoupon(coupons, id)
    \/ ~CouponAt(coupons, id).is_expired /\ CouponAt(coupons, id).expires_at > now

\* The step in which the cleanup job removes the row of its candidate.
CleanupRemoves(id) ==
    /\ cleanup.pc # "idle" /\ cleanup' # cleanup
    /\ HasCoupon(coupons, id) /\ ~HasCoupon(coupons', id)

\* A coupon past its expires_at is flagged in the end, unless it is deleted
\* or re-armed.
C29_EventuallyFlagged ==
    \A id \in CouponIds :
        DueForFlag(id)
        ~> (GoneOrRearmed(id) \/ CouponAt(coupons, id).is_expired)

\* A coupon flagged for the retention period is removed in the end, unless it
\* is re-armed.
C29_EventuallyRemoved ==
    \A id \in CouponIds :
        DueForRemoval(id)
        ~> (~HasCoupon(coupons, id) \/ ~CouponAt(coupons, id).is_expired)

\* The cleanup removes only rows that have been flagged: every write of
\* is_expired = true also records expired_at, and no write clears it.
C29_RemovedOnlyAfterFlagged ==
    [][\A id \in CouponIds :
          CleanupRemoves(id) => CouponAt(coupons, id).expired_at # NoTime]_vars

\* C29: with the sweep and the cleanup scheduled fairly, a coupon that is
\* neither deleted nor re-armed is flagged expired in the end once its
\* expires_at has passed, and removed in the end once it has been flagged
\* for the retention period; and the cleanup removes no coupon that was
\* never flagged.
C29_SweepAndCleanupProgress ==
    /\ C29_EventuallyFlagged
    /\ C29_EventuallyRemoved
    /\ C29_RemovedOnlyAfterFlagged

----------------------------------------------------------------------------
(* C30 *)

\* Coupon id is stored with its flag set and the time of flagging recorded.
Flagged(rows, id) ==
    /\ HasCoupon(rows, id)
    /\ CouponAt(rows, id).is_expired
    /\ CouponAt(rows, id).expired_at # NoTime

\* C30: expired_at, once recorded, is not overwritten while the coupon stays
\* flagged: no step of a sweep, getById, list or update call changes the
\* expired_at of a coupon that is flagged before and after the step, so
\* every write of is_expired = true skips the rows whose flag is set.
C30_ExpiredAtWrittenOnce ==
    [][\A id \in CouponIds :
          (Flagged(coupons, id) /\ Flagged(coupons', id))
          => CouponAt(coupons', id).expired_at
                = CouponAt(coupons, id).expired_at]_vars

----------------------------------------------------------------------------
(* C31 *)

RetireIds == {"C1", "C2"}

\* Coupons that are past their expiration when they are created.
RetireBodies ==
    [brandName : {"Acme"}, couponId : RetireIds, audience : {"all"},
     duration : {DurationSoon}]

\* Bound on the clock of the cleanup scenarios.
MaxRetireTicks == 1

\* The cleanup scenarios: two coupons, with or without an image, are
\* created, flagged and, a retention period later, cleaned up by a job whose
\* asset-delete calls and DELETE statements may fail.
NextRetire ==
    \/ \E body \in RetireBodies, hasFile \in BOOLEAN :
          CreateCoupon(Writer, body, hasFile)
    \/ CreateCouponInsert(Writer)
    \/ \E ok \in BOOLEAN : DeleteCloudinaryImage(Writer, ok)
    \/ Return(Writer)
    \/ Sweep
    \/ CleanupSelect
    \/ \E ok \in BOOLEAN : CleanupDeleteImage(ok)
    \/ CleanupDelete
    \/ CleanupDeleteFault
    \/ /\ now < MaxRetireTicks * RetentionSeconds
       /\ TickCoupon(RetentionSeconds)

SpecRetire == Init /\ [][NextRetire]_vars

\* The step in which the cleanup job is done with the candidate at the head
\* of its queue, and the step in which it has called the asset-delete.
CleanupCandidateDone ==
    cleanup.pc \in {"next", "delete"} /\ cleanup'.queue # cleanup.queue
CleanupImageCalled == cleanup.pc = "next" /\ cleanup'.pc = "delete"

\* C31: the cleanup job calls the asset-delete of a candidate with an image
\* before it removes the candidate's row, and goes on to remove the row
\* whether or not the asset-delete removed the image; when it is done with a
\* candidate, its row removed or its DELETE failed, every remaining
\* candidate is still queued for removal.
C31_CleanupIsBestEffortPerCoupon ==
    [][/\ CleanupImageCalled
          => /\ coupons' = coupons
             /\ cleanup'.queue = cleanup.queue
             /\ assets' \in {assets,
                             assets \ {Head(cleanup.queue).image_public_id}}
       /\ CleanupCandidateDone
          => /\ Head(cleanup.queue).image_public_id # NoImage
                => cleanup.pc = "delete"
             /\ coupons' \in {coupons,
                              DeleteCouponRow(coupons, Head(cleanup.queue).coupon_id)}
             /\ assets' = assets
             /\ cleanup'.queue = Tail(cleanup.queue)
             /\ cleanup'.pc = IF Tail(cleanup.queue) = <<>> THEN "idle" ELSE "next"
       /\ (cleanup.pc = "next" /\ cleanup' # cleanup
           /\ Head(cleanup.queue).image_public_id # NoImage)
          => CleanupImageCalled]_vars

\* The job has removed the row of a coupon whose image it failed to remove,
\* and has the next candidate to go.
C31_Witness ==
    /\ cleanup.pc = "next"
    /\ pc[Writer] = "idle"
    /\ \E id \in RetireIds :
          /\ ~HasCoupon(coupons, id)
          /\ \E f \in assets : f[1] = id

----------------------------------------------------------------------------
(* C32 *)

ImageUpdateBodies == [brandName : {"", "Zest"}, duration : {NoText}]

\* The image scenarios of one coupon: it is created, given new images by
\* updates and deleted, over a coupon store whose UPDATE may fail and an
\* asset store whose removals may fail.
NextImage ==
    \/ \E body \in CreateBodies, hasFile \in BOOLEAN :
          CreateCoupon(Writer, body, hasFile)
    \/ CreateCouponInsert(Writer)
    \/ \E p \in Clients, id \in CouponIds, body \in ImageUpdateBodies,
          hasFile \in BOOLEAN : UpdateCoupon(p, id, body, hasFile)
    \/ \E p \in Clients, ok \in BOOLEAN : UpdateCouponDeleteOldImage(p, ok)
    \/ \E p \in Clients : UpdateCouponWrite(p)
    \/ \E p \in Clients : UpdateCouponWriteFault(p)
    \/ \E id \in CouponIds : DeleteCoupon(Writer, id)
    \/ \E p \in Clients, ok \in BOOLEAN : DeleteCloudinaryImage(p, ok)
    \/ \E p \in Clients : Return(p)

SpecImage == Init /\ [][NextImage]_vars

\* C32: every stored coupon that has an image refers to an image that is in
\* the asset store.
C32_StoredImagesExist ==
    \A k \in DOMAIN coupons :
        coupons[k].image_public_id # NoImage
        => coupons[k].image_public_id \in assets

\* The same with no call in progress.
C32_StoredImagesExistAtRest ==
    (\A p \in Clients : pc[p] \in {"idle", "done"}) => C32_StoredImagesExist

----------------------------------------------------------------------------
(* C33 *)

\* C33: a stored coupon whose flag is set has its expires_at at or before
\* the current time.
C33_FlaggedOnlyWhenPastExpiration ==
    \A k \in DOMAIN coupons :
        coupons[k].is_expired => coupons[k].expires_at <= now

----------------------------------------------------------------------------
(* C34 *)

\* The verification race: the account signs up and asks for one code, and
\* both clients verify with the account's token.
NextVerifyRace ==
    \/ \E body \in AuthSignupBodies : SignupFindByEmail(Writer, body)
    \/ SignupFindByPhone(Writer)
    \/ SignupCreateUser(Writer)
    \/ /\ otp_codes = <<>> /\ otpSucceeded = {}
       /\ \E bearer \in Bearers : ResendOTP(Writer, bearer, "111111")
    \/ StoreOTPDelete(Writer)
    \/ StoreOTPInsert(Writer)
    \/ \E sent \in BOOLEAN : SendOTPEmail(Writer, sent)
    \/ \E p \in Clients, bearer \in Bearers, code \in Codes :
            VerifyOTPSelect(p, bearer, code)
    \/ \E p \in Clients : VerifyOTPDelete(p)
    \/ \E p \in Clients : VerifyOTPUpdate(p)
    \/ \E p \in Clients : Return(p)

SpecVerifyRace == Init /\ [][NextVerifyRace]_vars

\* Client p holds the answer 200 of a verifyOTP call.
VerifySucceeded(p) ==
    pc[p] = "done" /\ resp[p].op = "verifyOTP" /\ resp[p].status = 200

\* C34: of two verifyOTP calls by one user with the one code issued, at
\* most one is answered 200 with a fresh token.
C34_OneCodeOneSuccess ==
    \A p, q \in Clients :
        (p # q /\ VerifySucceeded(p) /\ VerifySucceeded(q))
        => ~(ctx[p].user_id = ctx[q].user_id /\ ctx[p].otp = ctx[q].otp)

----------------------------------------------------------------------------
(* C35 *)

\* The step in which a verifyOTP call is answered with anything but 200.
VerifyFailsBy(p) ==
    /\ pc[p] # "done" /\ pc'[p] = "done"
    /\ resp'[p].op = "verifyOTP" /\ resp'[p].status # 200

\* C35: a verifyOTP call that is not answered 200 leaves the ledger and the
\* user as they were before the call: its last step changes neither, and
\* when the call had found its code in the ledger, the code is still there.
C35_FailedVerifyChangesNothing ==
    [][\A p \in Clients :
          VerifyFailsBy(p)
          => /\ users' = users
             /\ otp_codes' = otp_codes
             /\ pc[p] \in {"verify_delete", "verify_update"}
                => SelectSeq(otp_codes',
                             LAMBDA r : /\ r.user_id = ctx[p].user_id
                                        /\ r.otp = ctx[p].otp
                                        /\ r.type = "email") # <<>>]_vars

----------------------------------------------------------------------------
(* C36 *)

\* Two accounts: one client signs them up and has codes issued to either,
\* the other verifies with the token of either and any code.
NextCross ==
    \/ \E body \in LifeSignupBodies : SignupFindByEmail(Writer, body)
    \/ SignupFindByPhone(Writer)
    \/ SignupCreateUser(Writer)
    \/ \E bearer \in Bearers, otp \in Codes : ResendOTP(Writer, bearer, otp)
    \/ StoreOTPDelete(Writer)
    \/ StoreOTPInsert(Writer)
    \/ SendOTPEmail(Writer, TRUE)
    \/ \E bearer \in Bearers, code \in Codes : VerifyOTPSelect(Reader, bearer, code)
    \/ VerifyOTPDelete(Reader)
    \/ VerifyOTPUpdate(Reader)
    \/ \E p \in Clients : Return(p)

SpecCross == Init /\ [][NextCross]_vars

\* The ledger rows and the is_verified flags of the users other than u.
RowsOfOthers(rows, u) == SelectSeq(rows, LAMBDA r : r.user_id # u)
VerifiedOfOthers(rows, u) ==
    [i \in DOMAIN rows \ {u} |-> rows[i].is_verified]

\* C36: a verifyOTP call with the token of user u goes on to success only
\* when the ledger holds a live row of u with the code, whatever rows other
\* users have; its steps delete no ledger row of another user and change
\* no other user's is_verified.
C36_CodesAreBoundToTheirUser ==
    [][\A p \in Clients :
          /\ (VerifyLookupBy(p) /\ pc'[p] = "verify_delete")
             => LiveCode(ctx'[p].user_id, ctx'[p].otp)
          /\ (pc[p] \in {"verify_delete", "verify_update"} /\ pc'[p] # pc[p])
             => /\ RowsOfOthers(otp_codes', ctx[p].user_id)
                      = RowsOfOthers(otp_codes, ctx[p].user_id)
                /\ VerifiedOfOthers(users', ctx[p].user_id)
                      = VerifiedOfOthers(users, ctx[p].user_id)]_vars

\* A call with one user's token and the code of the other user's live row
\* was answered 205; the row is still there and its user is not verified.
C36_Witness ==
    \E p \in Clients :
        /\ pc[p] = "done" /\ resp[p].op = "verifyOTP" /\ resp[p].status = 205
        /\ ctx[p].user_id # 0
        /\ \E a \in DOMAIN users :
              /\ a # ctx[p].user_id
              /\ LiveCode(a, ctx[p].otp)
              /\ ~users[a].is_verified

----------------------------------------------------------------------------
(* C37 *)

StatsIds == {"C1", "C2"}

StatsBodies ==
    [brandName : {"Acme"}, couponId : StatsIds, audience : {"all"},
     duration : {Duration1min}]

\* The number of times the clock advances in the stats scenarios.
MaxStatsTicks == 1

\* The stats scenarios: one client creates, updates and deletes two
\* coupons, the other asks for the counts; the sweep runs and time passes.
NextStats ==
    \/ \E body \in StatsBodies : CreateCoupon(Writer, body, FALSE)
    \/ CreateCouponInsert(Writer)
    \/ \E id \in StatsIds, body \in UpdateBodies : UpdateCoupon(Writer, id, body, FALSE)
    \/ UpdateCouponWrite(Writer)
    \/ \E id \in StatsIds : DeleteCoupon(Writer, id)
    \/ Stats(Reader)
    \/ StatsRead(Reader)
    \/ \E p \in Clients : Return(p)
    \/ Sweep
    \/ now < MaxStatsTicks * (SweepIntervalSeconds + 1)
       /\ TickCoupon(SweepIntervalSeconds + 1)

SpecStats == Init /\ [][NextStats]_vars

\* The two steps of a stats call.
StatsSweepBy(p) == pc[p] = "idle" /\ pc'[p] = "list_read" /\ ctx'[p].op = "stats"
StatsReadBy(p) == pc[p] = "list_read" /\ ctx[p].op = "stats" /\ pc'[p] = "done"

ActiveRows == {k \in DOMAIN coupons :
                  ~coupons[k].is_expired /\ coupons[k].expires_at > now}

----------------------------------------------------------------------------
(* The whole service *)

\* Every operation, every request.
Next ==
    \/ NextAuth \/ NextSignup \/ NextMode \/ NextVerified \/ NextRequire
    \/ NextProfile
    \/ NextCoupon \/ NextCleanup \/ NextAssets \/ NextDelete \/ NextDuration
    \/ NextStats
    \/ NextCross
    \/ NextVerifyRace
    \/ NextImage
    \/ NextRetire
    \/ NextStoreFault
    \/ NextLogin
    \/ NextUpdate
    \/ NextCreate \/ NextCreateFault
    \/ NextLife

Spec == Init /\ [][Next]_vars

====
